---------------------------- MODULE Spec2Model ----------------------------
(***************************************************************************)
(* HA-TrueX: the authenticated API client (CustomerApi + TrueXTokenInfo)   *)
(* in its two variants, and the host's setup of a config entry.            *)
(*                                                                         *)
(*   "component"  src/custom_components/truex/truex_sharing/customerapi.py *)
(*   "library"    src/truex_sharing/customerapi.py                         *)
(*                                                                         *)
(* Scheduling is asyncio's: a coroutine runs without interruption until it *)
(* awaits network I/O, so one action is the code between two network       *)
(* awaits.  Time is in milliseconds; the library's float seconds are the   *)
(* same instants divided by 1000.                                          *)
(***************************************************************************)
EXTENDS Integers, Sequences, FiniteSets, TLC

VARIABLES
    variant,           \* which CustomerApi this run is about
    now,               \* the clock, int(time.time() * 1000)
    token_info,        \* CustomerApi.token_info
    refreshing_token,  \* CustomerApi._refreshing_token (component only)
    issued,            \* number of successful token responses so far
    pc,                \* per request task: where the coroutine is suspended
    why,               \* per task: which call site awaits get_access_token
    biz_calls,         \* per task: business HTTP calls this request has issued
    token_called,      \* a token endpoint call (acquire or refresh) was issued
    host_pc,           \* async_setup_entry: where the host's setup is
    entry_token,       \* entry.data[CONF_TOKEN_INFO]
    injected_usable,   \* the token info injected at construction was usable
    token_listener,    \* CustomerApi.token_listener is set
    notified,          \* number of token_listener.update_token calls so far
    last_snapshot,     \* the argument of the last update_token call
    session,           \* CustomerApi._session: "none", "open", "closed" (by
                       \* close()) or "closed_outside" (by who handed it in)
    owns_session,      \* CustomerApi._owns_session
    close_called,      \* close() has been called
    stale,             \* per task: the session its request() holds was closed
    \* What is recorded of the request of the observed task (the tasks are
    \* interchangeable, so one of them is followed in detail):
    o_saw_expired,     \* _ensure_token found the token expired
    o_issued_at_check, \* `issued` when _ensure_token ran
    o_issued_at_send,  \* `issued` when the first business call left
    o_sent,            \* the business call in flight: what was signed and
                       \* the headers it carries
    o_forced,          \* forced get_access_token calls (invalid-token recovery)
    o_forced_ok,       \* the forced get_access_token succeeded
    o_first_resp,      \* the transport's answer to the first business call
    o_last_resp,       \* the transport's answer to the last business call
    o_outcome,         \* how request() ended
    o_acquire,         \* how the last answered get_access_token() failed
    \* The token store on its own:
    p_pc,              \* which operation was applied last
    p_tok,             \* the token info t
    p_snap,            \* t.to_dict()
    p_restored,        \* from_dict(t.to_dict())
    p_expired,         \* t.is_expired at `now`
    \* The signer on its own:
    s_pc,              \* whether the string to sign has been built
    s_req,             \* the request: method, path, query and body
    s_out,             \* the string to sign, piece by piece
    \* The device manager:
    m_variant,         \* which manager class this run is about
    device_map,        \* Manager.device_map: device id -> device
    device_listeners,  \* Manager.device_listeners: how many are registered
    m_pc,              \* where the running manager coroutine is suspended
    m_cur,             \* the device whose call is in flight
    m_todo,            \* devices the running loop has still to visit
    m_last,            \* the operation that runs or ran last
    m_list,            \* the device list call of this rebuild: how it ended
                       \* and how many entries the list had
    m_listed,          \* ids the device list of this update_device_cache named
    m_result,          \* per device visited by the loop: how its call ended
    m_raised,          \* the operation let an exception out
    m_poll,            \* the last answered status call and what it did
    m_returned,        \* what the last send_commands returned
    \* update_device_status coroutines that overlap (one per cycle):
    l_raises,          \* the listeners (by position) whose update_device raises
    c_pc,              \* per cycle: "idle", or "status" while awaiting a call
    c_cur,             \* per cycle: the device whose status call is in flight
    c_todo,            \* per cycle: keys its dict iterator has still to yield
    c_size,            \* per cycle: len(device_map) when its iterator was made
    c_orphan,          \* per cycle: the `device` it holds was replaced in
                       \* device_map while its call was in flight
    c_keys,            \* per cycle: the keys of device_map when it started
    c_polled,          \* per cycle: devices whose status call has been issued
    c_poll,            \* the last answered status call of a cycle
    c_ended            \* the cycle that ended last, and how

clientvars == <<variant, token_info, refreshing_token, issued>>
listenervars == <<token_listener, notified, last_snapshot>>
sessvars == <<session, owns_session, close_called, stale>>
taskvars == <<pc, why, biz_calls, token_called>>
hostvars == <<host_pc, entry_token, injected_usable>>
checkvars == <<o_saw_expired, o_issued_at_check>>
sendvars == <<o_issued_at_send, o_sent>>
recvvars == <<o_forced, o_first_resp, o_last_resp>>
obsvars == <<checkvars, sendvars, recvvars, o_forced_ok, o_outcome>>
apivars == <<now, clientvars, listenervars, sessvars, taskvars, hostvars,
             obsvars, o_acquire>>
probevars == <<p_pc, p_tok, p_snap, p_restored, p_expired>>
registryvars == <<m_variant, device_map, device_listeners>>
loopvars == <<m_pc, m_cur, m_todo>>
opvars == <<m_last, m_list, m_listed, m_result, m_raised, m_poll,
            m_returned>>
cyclevars == <<l_raises, c_pc, c_cur, c_todo, c_size, c_keys, c_polled,
               c_poll, c_ended>>
pollvars == <<cyclevars, c_orphan>>
mgrvars == <<registryvars, loopvars, opvars, pollvars>>
signvars == <<s_pc, s_req, s_out>>
vars == <<apivars, probevars, mgrvars, signvars>>

---------------------------------------------------------------------------
(* Bounds of the model.                                                    *)

NumTasks == 2
MaxTicks == 2
MaxIssued == 2
NumCycles == 2

Tasks == 1..NumTasks
Cycles == 1..NumCycles
(* The task whose request is followed in detail: the first one.            *)
Observed == CHOOSE t \in Tasks : \A u \in Tasks : t <= u

(* Program constants.                                                      *)
BufferMs == 60000
BufferSecs == 60

Variants == {"component", "library"}

TickMs == 60 * 1000
MaxNow == MaxTicks * TickMs
ProbeStepMs == 30 * 1000

None == [none |-> TRUE]

(* The access and refresh tokens the server hands out, by issue number.    *)
AccessName(n) == IF n = 1 THEN "at1" ELSE IF n = 2 THEN "at2"
                 ELSE IF n = 3 THEN "at3" ELSE "at4"
RefreshName(n) == IF n = 1 THEN "rt1" ELSE IF n = 2 THEN "rt2"
                  ELSE IF n = 3 THEN "rt3" ELSE "rt4"

(* dict.get(key, default)                                                  *)
Get(d, k, default) == IF k \in DOMAIN d THEN d[k] ELSE default

(* {} and d[k] = v                                                         *)
EmptyDict == [k \in {} |-> ""]

Put(d, k, v) == [x \in DOMAIN d \cup {k} |-> IF x = k THEN v ELSE d[x]]


---------------------------------------------------------------------------
(* TrueXTokenInfo                                                          *)

(* TrueXTokenInfo() with no response: the empty token.                     *)
EmptyTokenComponent ==
    [access_token |-> "", refresh_token |-> "", uid |-> "",
     expire_time |-> 0, expire_at |-> 0]

EmptyTokenLibrary ==
    [access_token |-> "", refresh_token |-> "", expire_time |-> 0,
     uid |-> "", token_acquired_at |-> 0]

EmptyToken(v) ==
    IF v = "component" THEN EmptyTokenComponent ELSE EmptyTokenLibrary

(* component: TrueXTokenInfo(token_data), token_data built from a token    *)
(* response by get_access_token / _refresh_access_token.                   *)
TokenDataComponent(response) ==
    LET result == Get(response, "result", <<>>)
    IN  [t |-> Get(response, "t", 0),
         expire_time |-> Get(result, "expire_time", 0),
         uid |-> Get(result, "uid", ""),
         access_token |-> Get(result, "access_token", ""),
         refresh_token |-> Get(result, "refresh_token", "")]

TokenInfoComponent(token_response) ==
    [access_token |-> Get(token_response, "access_token", ""),
     refresh_token |-> Get(token_response, "refresh_token", ""),
     uid |-> Get(token_response, "uid", ""),
     expire_time |-> Get(token_response, "expire_time", 0),
     expire_at |-> Get(token_response, "t", 0)
                     + Get(token_response, "expire_time", 0) * 1000]

(* library: TrueXTokenInfo(response), stamped with the local clock.        *)
TokenInfoLibrary(token_response, clock) ==
    LET result == Get(token_response, "result", token_response)
    IN  [access_token |-> Get(result, "access_token", ""),
         refresh_token |-> Get(result, "refresh_token", ""),
         expire_time |-> Get(result, "expire_time", 0),
         uid |-> Get(result, "uid", ""),
         token_acquired_at |-> clock]

(* The token info a successful token response leaves in token_info.        *)
NewTokenInfo(v, response, clock) ==
    IF v = "component"
    THEN TokenInfoComponent(TokenDataComponent(response))
    ELSE TokenInfoLibrary(response, clock)

(* is_expired, component: expire_at - 60_000 <= now_ms                     *)
IsExpiredComponent(tok, clock) ==
    IF tok.access_token = "" THEN TRUE
    ELSE tok.expire_at - BufferMs <= clock

(* is_expired, library: time.time() > token_acquired_at + expire_time - 60 *)
(* (seconds in the code, scaled by 1000 here).                             *)
IsExpiredLibrary(tok, clock) ==
    IF tok.access_token = "" THEN TRUE
    ELSE clock > tok.token_acquired_at + (tok.expire_time - BufferSecs) * 1000

is_expired(v, tok, clock) ==
    IF v = "component" THEN IsExpiredComponent(tok, clock)
    ELSE IsExpiredLibrary(tok, clock)

(* to_dict / from_dict, component                                          *)
ToDictComponent(tok) ==
    [access_token |-> tok.access_token,
     refresh_token |-> tok.refresh_token,
     uid |-> tok.uid,
     expire_time |-> tok.expire_time,
     expire_at |-> tok.expire_at]

(* A from_dict that forgets the absolute expiry.                           *)
FromDictComponentNoExpiry(data) ==
    [access_token |-> Get(data, "access_token", ""),
     refresh_token |-> Get(data, "refresh_token", ""),
     uid |-> Get(data, "uid", ""),
     expire_time |-> Get(data, "expire_time", 0),
     expire_at |-> 0]

FromDictComponent(data) ==
    [access_token |-> Get(data, "access_token", ""),
     refresh_token |-> Get(data, "refresh_token", ""),
     uid |-> Get(data, "uid", ""),
     expire_time |-> Get(data, "expire_time", 0),
     expire_at |-> Get(data, "expire_at", 0)]

(* to_dict / from_dict, library                                            *)
ToDictLibrary(tok) ==
    [access_token |-> tok.access_token,
     refresh_token |-> tok.refresh_token,
     expire_time |-> tok.expire_time,
     uid |-> tok.uid,
     token_acquired_at |-> tok.token_acquired_at]

FromDictLibrary(data) ==
    [access_token |-> Get(data, "access_token", ""),
     refresh_token |-> Get(data, "refresh_token", ""),
     expire_time |-> Get(data, "expire_time", 0),
     uid |-> Get(data, "uid", ""),
     token_acquired_at |-> Get(data, "token_acquired_at", 0)]

to_dict(v, tok) ==
    IF v = "component" THEN ToDictComponent(tok) ELSE ToDictLibrary(tok)

from_dict(v, data) ==
    IF v = "component" THEN FromDictComponent(data) ELSE FromDictLibrary(data)

(* The instant, in ms, at which the token's lifetime ends.                 *)
ExpiresAtMs(v, tok) ==
    IF v = "component" THEN tok.expire_at
    ELSE tok.token_acquired_at + tok.expire_time * 1000

---------------------------------------------------------------------------
(* The transport.  A reply is what the HTTP layer hands back: `ok` is      *)
(* resp.ok (a 2xx status), `json` tells whether resp.json() decodes the    *)
(* body (it raises otherwise), `body` is the decoded object.               *)

ExpireTimes == {120}

(* code 1010 arrives as a number or as a string; request() accepts both    *)
(* (code in (1010, "1010")), so one value stands for the two.              *)
InvalidTokenCodes == {"1010"}
OtherCode == "2001"

FailBody(code) == [success |-> FALSE, code |-> code, msg |-> "error"]

TokenBody(clock, n, r, e) ==
    [success |-> TRUE, t |-> clock,
     result |-> [access_token |-> AccessName(n), refresh_token |-> r,
                 expire_time |-> e, uid |-> "u1"]]

(* Replies of GET /v1.0/token?grant_type=1 and GET /v1.0/token/{refresh}.  *)
TokenReplies(clock, n) ==
    {[ok |-> FALSE, json |-> FALSE, body |-> None],
     [ok |-> TRUE, json |-> TRUE, body |-> FailBody(OtherCode)]}
    \cup
    (IF n < MaxIssued
     THEN {[ok |-> TRUE, json |-> TRUE, body |-> TokenBody(clock, n + 1, r, e)] :
              r \in {"", RefreshName(n + 1)}, e \in ExpireTimes}
     ELSE {})

(* Replies of a business call.                                             *)
BusinessReplies ==
    {[ok |-> FALSE, json |-> FALSE, body |-> None],
     [ok |-> FALSE, json |-> TRUE, body |-> FailBody(OtherCode)],
     [ok |-> TRUE, json |-> FALSE, body |-> None],
     [ok |-> TRUE, json |-> TRUE, body |-> [success |-> TRUE, result |-> "r"]],
     [ok |-> TRUE, json |-> TRUE, body |-> FailBody("1010")],
     [ok |-> TRUE, json |-> TRUE, body |-> FailBody(OtherCode)]}

Success(reply) == reply.json /\ Get(reply.body, "success", FALSE)

(* The exception a failed token call raises: resp.json() failing, or       *)
(* TrueXAPIError for a decoded non-success response.                       *)
TokenCallError(reply) ==
    IF ~reply.json THEN "raise_transport" ELSE "raise_api"

---------------------------------------------------------------------------
(* The state of a CustomerApi right after construction, nothing started.   *)
ApiConstructed(v, tok) ==
    /\ variant = v
    /\ token_info = tok
    /\ refreshing_token = FALSE
    /\ issued = 0
    /\ pc = [t \in Tasks |-> "idle"]
    /\ why = [t \in Tasks |-> "none"]
    /\ biz_calls = [t \in Tasks |-> 0]
    /\ token_called = FALSE
    /\ o_saw_expired = FALSE
    /\ o_issued_at_check = 0
    /\ o_issued_at_send = 0
    /\ o_sent = None
    /\ o_forced = 0
    /\ o_forced_ok = FALSE
    /\ o_first_resp = None
    /\ o_last_resp = None
    /\ o_outcome = "none"
    /\ o_acquire = None
    /\ notified = 0
    /\ last_snapshot = None

(* CustomerApi(...) without a session: _session is None and the client    *)
(* owns whatever session it creates.  With a session handed in, the client *)
(* uses it and does not own it.                                            *)
SessionNew ==
    /\ session = "none"
    /\ owns_session = TRUE
    /\ close_called = FALSE
    /\ stale = [t \in Tasks |-> FALSE]

SessionInjected ==
    /\ session = "open"
    /\ owns_session = FALSE
    /\ close_called = FALSE
    /\ stale = [t \in Tasks |-> FALSE]

ProbeUnused ==
    /\ p_pc = "off"
    /\ p_tok = None
    /\ p_snap = None
    /\ p_restored = None
    /\ p_expired = None

(* Nothing is being signed.                                                *)
SignerUnused ==
    /\ s_pc = "off"
    /\ s_req = None
    /\ s_out = <<>>

(* No device list call has been answered.                                  *)
NoList == [kind |-> "none", entries |-> 0]

(* No device manager exists.                                               *)
NoCycles ==
    /\ l_raises = {}
    /\ c_pc = [c \in Cycles |-> "idle"]
    /\ c_cur = [c \in Cycles |-> ""]
    /\ c_todo = [c \in Cycles |-> {}]
    /\ c_size = [c \in Cycles |-> 0]
    /\ c_orphan = [c \in Cycles |-> FALSE]
    /\ c_keys = [c \in Cycles |-> {}]
    /\ c_polled = [c \in Cycles |-> {}]
    /\ c_poll = None
    /\ c_ended = None

ManagerUnused ==
    /\ NoCycles
    /\ m_variant = "none"
    /\ device_map = EmptyDict
    /\ device_listeners = 0
    /\ m_pc = "off"
    /\ m_cur = ""
    /\ m_todo = {}
    /\ m_last = "none"
    /\ m_list = NoList
    /\ m_listed = {}
    /\ m_result = EmptyDict
    /\ m_raised = FALSE
    /\ m_poll = None
    /\ m_returned = None

---------------------------------------------------------------------------
(* The token store on its own: every token info of a bounded set, at every *)
(* clock value, with to_dict, from_dict and is_expired applied to it.      *)

Clocks == {k * ProbeStepMs : k \in 0..(MaxTicks + 2)}

ProbeTokens(v) ==
    IF v = "component"
    THEN [access_token : {"", "at0"}, refresh_token : {"", "rt0"},
          uid : {"", "u1"}, expire_time : {0, 60, 120},
          expire_at : {0, 2 * ProbeStepMs, 4 * ProbeStepMs}]
    ELSE [access_token : {"", "at0"}, refresh_token : {"", "rt0"},
          expire_time : {0, 60, 120}, uid : {"", "u1"},
          token_acquired_at : {0, ProbeStepMs, 2 * ProbeStepMs}]

ProbeInit ==
    /\ \E v \in Variants : ApiConstructed(v, EmptyToken(v))
    /\ now \in Clocks
    /\ host_pc = "none"
    /\ entry_token = None
    /\ injected_usable = FALSE
    /\ token_listener = FALSE
    /\ SessionNew
    /\ ManagerUnused
    /\ SignerUnused
    /\ p_pc = "new"
    /\ p_tok \in ProbeTokens(variant)
    /\ p_snap = None
    /\ p_restored = None
    /\ p_expired = None

(* t.to_dict()                                                             *)
ProbeToDict ==
    /\ p_pc \in {"new", "checked"}
    /\ p_snap' = to_dict(variant, p_tok)
    /\ p_pc' = "saved"
    /\ UNCHANGED <<apivars, mgrvars, signvars, p_tok, p_restored, p_expired>>

(* TrueXTokenInfo.from_dict(snapshot)                                      *)
ProbeFromDict ==
    /\ p_pc = "saved"
    /\ p_restored' = from_dict(variant, p_snap)
    /\ p_pc' = "restored"
    /\ UNCHANGED <<apivars, mgrvars, signvars, p_tok, p_snap, p_expired>>

(* t.is_expired                                                            *)
ProbeIsExpired ==
    /\ p_pc = "new"
    /\ p_expired' = is_expired(variant, p_tok, now)
    /\ p_pc' = "checked"
    /\ UNCHANGED <<apivars, mgrvars, signvars, p_tok, p_snap, p_restored>>

(* Token responses a server may send at `clock`: with its timestamp `t`    *)
(* equal to the client's clock, behind it, ahead of it, or left out.       *)
ProbeResponses(clock) ==
    {[success |-> TRUE, t |-> ts,
      result |-> [access_token |-> "at0", refresh_token |-> "rt0",
                  expire_time |-> e, uid |-> "u1"]] :
        ts \in {clock, clock - ProbeStepMs, clock + ProbeStepMs},
        e \in {90, 120}}
    \cup
    {[success |-> TRUE,
      result |-> [access_token |-> "at0", refresh_token |-> "rt0",
                  expire_time |-> e, uid |-> "u1"]] : e \in {90, 120}}

(* The token info a successful get_access_token / refresh stores when the  *)
(* response arrives at `now`.                                              *)
ProbeAcquire ==
    /\ p_pc = "new"
    /\ \E response \in ProbeResponses(now) :
          p_tok' = NewTokenInfo(variant, response, now)
    /\ p_pc' = "acquired"
    /\ UNCHANGED <<apivars, mgrvars, signvars, p_snap, p_restored, p_expired>>

ProbeNext == ProbeToDict \/ ProbeFromDict \/ ProbeIsExpired \/ ProbeAcquire

SpecToken == ProbeInit /\ [][ProbeNext]_vars

---------------------------------------------------------------------------
(* The signer on its own: _string_to_sign (component) and the string to    *)
(* sign built inside _calc_sign (library).  A string is kept as the        *)
(* sequence of the pieces it is put together from.  A query is a dict: the *)
(* sequence of its (key, value) items in insertion order, the keys         *)
(* distinct.                                                               *)

MaxQuery == 2

(* The keys a query may have, each with the code points of its characters: *)
(* sorted() orders str keys by code point, a proper prefix first.          *)
KeyChars == [k \in {"a", "ab", "B", "b"} |->
                IF k = "a" THEN <<97>>
                ELSE IF k = "ab" THEN <<97, 98>>
                ELSE IF k = "B" THEN <<66>>
                ELSE <<98>>]

QueryKeys == DOMAIN KeyChars

(* x < y for two str keys                                                  *)
RECURSIVE CharsLess(_, _)
CharsLess(x, y) ==
    IF y = <<>> THEN FALSE
    ELSE IF x = <<>> THEN TRUE
    ELSE IF Head(x) # Head(y) THEN Head(x) < Head(y)
    ELSE CharsLess(Tail(x), Tail(y))

KeyLess(j, k) == CharsLess(KeyChars[j], KeyChars[k])

(* list.insert at the place that keeps the list sorted                     *)
RECURSIVE Inserted(_, _)
Inserted(sorted_keys, k) ==
    IF sorted_keys = <<>> THEN <<k>>
    ELSE IF KeyLess(k, Head(sorted_keys)) THEN <<k>> \o sorted_keys
    ELSE <<Head(sorted_keys)>> \o Inserted(Tail(sorted_keys), k)

RECURSIVE SortedList(_)
SortedList(keys) ==
    IF keys = <<>> THEN <<>>
    ELSE Inserted(SortedList(SubSeq(keys, 1, Len(keys) - 1)),
                  keys[Len(keys)])

(* query.keys(): the keys in insertion order                               *)
Keys(query) == [i \in DOMAIN query |-> query[i][1]]

(* sorted(query.keys()).  The definition before it leaves the keys in      *)
(* insertion order.                                                        *)
InsertionOrder(query) == Keys(query)

sorted_keys(query) == SortedList(Keys(query))

(* query[k]                                                                *)
ValueOf(query, k) ==
    query[CHOOSE i \in DOMAIN query : query[i][1] = k][2]

(* f"{value}": a str as it is, a number in decimal.                        *)
Formatted(value) == IF value.is_str THEN value.val ELSE ToString(value.val)

(* "&".join(f"{k}={query[k]}" for k in sorted_keys)                        *)
RECURSIVE JoinedPairs(_, _)
JoinedPairs(query, keys) ==
    IF keys = <<>> THEN <<>>
    ELSE <<Head(keys), "=", Formatted(ValueOf(query, Head(keys)))>>
         \o (IF Tail(keys) = <<>> THEN <<>> ELSE <<"&">>)
         \o JoinedPairs(query, Tail(keys))

(* hashlib.sha256(body.encode("utf-8")).hexdigest() of the bodies used     *)
Bodies == {"", "{\"commands\": [{\"code\": \"switch_1\", \"value\": true}]}"}

Sha256Hex(body) ==
    IF body = ""
    THEN "e3b0c44298fc1c149afbf4c8996fb92427ae41e4649b934ca495991b7852b855"
    ELSE "f91c1e221662f76e44b8eb47289228b9ce8cbb8c635ee66494c1f3b040e7372a"

(* component _string_to_sign, lines 142-169                                *)
StringToSignComponent(method, path, query, body) ==
    LET body_hash == Sha256Hex(body)
        url == IF query # <<>>
               THEN <<path, "?">> \o JoinedPairs(query, sorted_keys(query))
               ELSE <<path>>
        headers_str == ""
    IN  <<method, "\n", body_hash, "\n", headers_str, "\n">> \o url

(* library _calc_sign, lines 140-158                                       *)
StringToSignLibrary(method, path, query_params, body) ==
    LET content_hash == Sha256Hex(body)
        sorted_query == IF query_params # <<>>
                        THEN JoinedPairs(query_params,
                                         sorted_keys(query_params))
                        ELSE <<>>
        url_with_query == IF sorted_query # <<>>
                          THEN <<path, "?">> \o sorted_query
                          ELSE <<path>>
        headers_str == ""
    IN  <<method, "\n", content_hash, "\n", headers_str, "\n">>
        \o url_with_query

string_to_sign(v, req) ==
    IF v = "component"
    THEN StringToSignComponent(req.method, req.path, req.query, req.body)
    ELSE StringToSignLibrary(req.method, req.path, req.query, req.body)

(* The queries: every sequence of at most MaxQuery items with distinct     *)
(* keys, the values a str or a number.                                     *)
QueryValues == {[is_str |-> TRUE, val |-> "x"], [is_str |-> FALSE, val |-> 1]}

RECURSIVE Queries(_)
Queries(n) ==
    IF n = 0 THEN {<<>>}
    ELSE Queries(n - 1)
         \cup {Append(q, <<k, v>>) :
                  q \in {r \in Queries(n - 1) : Len(r) = n - 1},
                  k \in QueryKeys, v \in QueryValues}

DistinctKeys(q) ==
    \A i, j \in DOMAIN q : q[i][1] = q[j][1] => i = j

Requests ==
    [method : {"GET", "POST"},
     path : {"/v1.0/token", "/v1.0/devices/d1/commands"},
     query : {q \in Queries(MaxQuery) : DistinctKeys(q)},
     body : Bodies]

(* The dicts with the items of `query` in another insertion order.         *)
Reorderings(query) ==
    {[i \in DOMAIN query |-> query[f[i]]] :
        f \in Permutations(DOMAIN query)}

SignerInit ==
    /\ now = 0
    /\ \E v \in Variants : ApiConstructed(v, EmptyToken(v))
    /\ host_pc = "none"
    /\ entry_token = None
    /\ injected_usable = FALSE
    /\ token_listener = FALSE
    /\ SessionNew
    /\ ProbeUnused
    /\ ManagerUnused
    /\ s_pc = "new"
    /\ s_req \in Requests
    /\ s_out = <<>>

(* The string to sign of the request is built.                             *)
BuildStringToSign ==
    /\ s_pc = "new"
    /\ s_out' = string_to_sign(variant, s_req)
    /\ s_pc' = "built"
    /\ UNCHANGED <<apivars, probevars, mgrvars, s_req>>

SignerNext == BuildStringToSign

SpecSigner == SignerInit /\ [][SignerNext]_vars

---------------------------------------------------------------------------
(* CustomerApi.request and the token calls it makes.  Each action below is *)
(* the code that runs from one network await to the next.                  *)

(* _ensure_session: a session is created when there is none or when the    *)
(* one there is closed, and the client owns the one it created.            *)
EnsureSession ==
    IF session \in {"none", "closed", "closed_outside"}
    THEN session' = "open" /\ owns_session' = TRUE
    ELSE UNCHANGED <<session, owns_session>>

(* What a business call signs besides the string to sign: the access token *)
(* and the timestamp.  The component's _calc_sign leaves the access token  *)
(* out when it is empty, which gives the same text as concatenating "".    *)
SignedPayload(v, tok, timestamp) ==
    [access_token |-> tok.access_token, t |-> timestamp]

(* The headers of a business call: the component always sends access_token,*)
(* the library only when the stored access token is not empty.  The first  *)
(* definition takes the header `t` from a second reading of the clock.     *)
BuildHeadersSecondClock(v, tok, timestamp) ==
    [access_token |-> tok.access_token, t |-> timestamp + 1]

BuildHeaders(v, tok, timestamp) ==
    IF v = "component" \/ tok.access_token # ""
    THEN [access_token |-> tok.access_token, t |-> timestamp]
    ELSE [t |-> timestamp]

(* The coroutine of task t reaches session.request(...): the business call *)
(* leaves, signed with `tok`, the token info stored at that point, and the *)
(* clock read at that point; `iss` is the number of token responses stored *)
(* by then.  The first business call of a *)
(* request follows _ensure_session; the library's retry reuses the session *)
(* the request already holds, which is open when the call is made.         *)
GoBusiness(t, iss, tok) ==
    /\ EnsureSession
    /\ o_sent' = IF t = Observed
                 THEN [signed |-> SignedPayload(variant, tok, now),
                       headers |-> BuildHeaders(variant, tok, now)]
                 ELSE o_sent
    /\ pc' = [pc EXCEPT ![t] = "business"]
    /\ why' = [why EXCEPT ![t] = "none"]
    /\ biz_calls' = [biz_calls EXCEPT ![t] = @ + 1]
    /\ o_issued_at_send' =
          IF t = Observed /\ biz_calls[t] = 0 THEN iss ELSE o_issued_at_send
    /\ UNCHANGED <<token_called, o_outcome>>

(* Task t issues a token call: kind "refresh" is GET /v1.0/token/{refresh},*)
(* kind "acquire" is get_access_token(), awaited at call site `site`.      *)
GoToken(t, kind, site) ==
    /\ EnsureSession
    /\ pc' = [pc EXCEPT ![t] = kind]
    /\ why' = [why EXCEPT ![t] = site]
    /\ token_called' = TRUE
    /\ o_sent' = IF t = Observed THEN None ELSE o_sent
    /\ UNCHANGED <<biz_calls, o_issued_at_send, o_outcome>>

(* request() of task t ends: it returns or raises.                         *)
GoDone(t, how) ==
    /\ UNCHANGED <<session, owns_session>>
    /\ pc' = [pc EXCEPT ![t] = "done"]
    /\ why' = [why EXCEPT ![t] = "none"]
    /\ o_outcome' = IF t = Observed THEN how ELSE o_outcome
    /\ o_sent' = IF t = Observed THEN None ELSE o_sent
    /\ UNCHANGED <<biz_calls, token_called, o_issued_at_send>>

(* self.token_info = TrueXTokenInfo(...): the stored token info `old` is   *)
(* dropped and the new object takes its place.  The second definition is   *)
(* a replacement that carries the refresh token over when the response     *)
(* has none.                                                               *)
ReplacedFieldwise(old, new) ==
    [new EXCEPT !.refresh_token = IF @ = "" THEN old.refresh_token ELSE @]

Replaced(old, new) == new

(* if self.token_listener: self.token_listener.update_token(...): the      *)
(* number of update_token calls after a token was stored.  The second      *)
(* definition is a client that never tells its listener.                   *)
ListenerCallsNone(listener, n) == n

ListenerCalls(listener, n) == IF listener THEN n + 1 ELSE n

(* The tail of a successful token call: the token info built from the      *)
(* response is stored and the listener is handed its snapshot.             *)
StoreToken(tok) ==
    /\ token_info' = Replaced(token_info, tok)
    /\ issued' = issued + 1
    /\ notified' = ListenerCalls(token_listener, notified)
    /\ last_snapshot' = IF token_listener THEN to_dict(variant, token_info')
                        ELSE last_snapshot
    /\ UNCHANGED token_listener

(* A failed token call that throws the stored token away.                  *)
ClearToken ==
    /\ token_info' = EmptyToken(variant)
    /\ UNCHANGED <<issued, listenervars>>

(* A token call that failed leaves the token and the listener alone.       *)
KeepToken == UNCHANGED <<token_info, issued, listenervars>>

(* How a get_access_token() that got `reply` failed: what it raised, and   *)
(* whether the stored token info is what it was before the call.  None     *)
(* when it returned the response.                                          *)
AcquireEnded(reply, before, after) ==
    IF Success(reply) THEN None
    ELSE [resp |-> reply, raised |-> TokenCallError(reply),
          kept |-> (before = after)]

(* component _refresh_access_token, lines 298-299: TRUE when the call      *)
(* returns at once because a refresh is marked as running.  The library    *)
(* has no such flag.                                                       *)
RefreshGuarded(v, flag) == v = "component" /\ flag

(* component _refresh_access_token, lines 362-363: `finally:                *)
(* self._refreshing_token = False`, the flag when the call is left; `how`  *)
(* is "stored" after a successful refresh or fallback, "raised" when the   *)
(* fallback in the except handler raised, "cancelled" when CancelledError  *)
(* passed through.  The definition before it clears the flag at the end of *)
(* the try only.                                                           *)
FlagClearedAtEndOfTry(flag, how) == IF how = "stored" THEN FALSE ELSE flag

FlagOnExit(flag, how) == FALSE

(* `if self.token_info.refresh_token:` in _ensure_token (and, in the        *)
(* library, `if not self.token_info.refresh_token:` at the head of         *)
(* refresh_access_token): the refresh endpoint is called only with a       *)
(* refresh token.  The definition before it is a client that always        *)
(* refreshes.                                                              *)
HoldsRefreshTokenAlways(tok) == TRUE

HoldsRefreshToken(tok) == tok.refresh_token # ""

(* request() up to its first network await: _ensure_token, then either a   *)
(* token call or the business call itself.                                 *)
StartRequest(t) ==
    /\ pc[t] = "idle"
    /\ host_pc \in {"none", "ready"}
    /\ LET expired == is_expired(variant, token_info, now) IN
       /\ o_saw_expired' = IF t = Observed THEN expired ELSE o_saw_expired
       /\ o_issued_at_check' = IF t = Observed THEN issued ELSE o_issued_at_check
       /\ IF ~expired
          THEN /\ GoBusiness(t, issued, token_info)
               /\ UNCHANGED refreshing_token
          ELSE IF HoldsRefreshToken(token_info)
          THEN IF RefreshGuarded(variant, refreshing_token)
               THEN /\ GoBusiness(t, issued, token_info)
                    /\ UNCHANGED refreshing_token
               ELSE /\ GoToken(t, "refresh", "ensure")
                    /\ refreshing_token' = (variant = "component")
          ELSE /\ GoToken(t, "acquire", "ensure")
               /\ UNCHANGED refreshing_token
    /\ UNCHANGED <<now, variant, token_info, issued, listenervars, hostvars,
                   close_called, stale, recvvars, o_forced_ok, o_acquire,
                   probevars, mgrvars, signvars>>

(* The reply to the refresh call of task t arrives.                        *)
RefreshRecv(t) ==
    /\ pc[t] = "refresh"
    /\ \E reply \in TokenReplies(now, issued) :
          IF Success(reply)
          THEN /\ StoreToken(NewTokenInfo(variant, reply.body, now))
               /\ refreshing_token' = FlagOnExit(refreshing_token, "stored")
               /\ GoBusiness(t, issued + 1, token_info')
          ELSE IF variant = "component"
          THEN \* the else-branch, or the except handler when resp.json() raised
               /\ GoToken(t, "acquire",
                          IF reply.json THEN "refresh_else" ELSE "refresh_except")
               /\ KeepToken
               /\ UNCHANGED refreshing_token
          ELSE IF reply.json
          THEN /\ GoToken(t, "acquire", "refresh_fallback")
               /\ KeepToken
               /\ UNCHANGED refreshing_token
          ELSE /\ GoDone(t, "raise_transport")
               /\ KeepToken
               /\ UNCHANGED refreshing_token
    /\ UNCHANGED <<now, variant, hostvars, close_called, stale, checkvars,
                   recvvars, o_forced_ok, o_acquire, probevars, mgrvars,
                   signvars>>

(* An exception of get_access_token() awaited at call site `site` leaves   *)
(* request(): none of the call sites outside the component's refresh is    *)
(* inside a try (library request, line 292: `await                         *)
(* self.get_access_token()`).  The definition before it is a request that  *)
(* swallows the error of the forced call and retries all the same.         *)
AcquireErrorSwallowedAtRetry(site) == site # "retry"

AcquireErrorPropagates(site) == TRUE

(* The reply to get_access_token() of task t arrives.                      *)
AcquireRecv(t) ==
    /\ pc[t] = "acquire"
    /\ \E reply \in TokenReplies(now, issued) :
          /\ IF Success(reply)
             THEN /\ StoreToken(NewTokenInfo(variant, reply.body, now))
                  /\ refreshing_token' =
                        IF why[t] \in {"refresh_else", "refresh_except"}
                        THEN FlagOnExit(refreshing_token, "stored")
                        ELSE refreshing_token
                  /\ o_forced_ok' =
                        IF t = Observed /\ why[t] = "retry" THEN TRUE
                        ELSE o_forced_ok
                  /\ IF why[t] = "retry" /\ stale[t]
                     THEN \* session.request on the closed session raises
                          GoDone(t, "raise_transport")
                     ELSE GoBusiness(t, issued + 1, token_info')
             ELSE IF why[t] = "refresh_else"
             THEN \* raised inside the try: `except Exception` calls it again
                  /\ GoToken(t, "acquire", "refresh_except")
                  /\ KeepToken
                  /\ UNCHANGED <<refreshing_token, o_forced_ok>>
             ELSE /\ IF AcquireErrorPropagates(why[t])
                     THEN GoDone(t, TokenCallError(reply))
                     ELSE GoBusiness(t, issued, token_info)
                  /\ refreshing_token' =
                        IF why[t] = "refresh_except"
                        THEN FlagOnExit(refreshing_token, "raised")
                        ELSE refreshing_token
                  /\ KeepToken
                  /\ UNCHANGED o_forced_ok
          /\ o_acquire' = IF t = Observed
                          THEN AcquireEnded(reply, token_info, token_info')
                          ELSE o_acquire
    /\ UNCHANGED <<now, variant, hostvars, close_called, stale, checkvars,
                   recvvars, probevars, mgrvars, signvars>>

(* component request(), from the reply to the business call on.            *)
ComponentOutcome(reply) ==
    IF ~reply.ok THEN "return_failure"
    ELSE IF ~reply.json THEN "raise_transport"
    ELSE IF ~Get(reply.body, "success", FALSE) THEN "raise_api"
    ELSE "return_success"

(* library request(): what follows the reply to the first business call.   *)
(* "recover" is the invalid-token branch.                                  *)
LibraryFirstOutcome(reply) ==
    IF ~reply.json THEN "raise_transport"
    ELSE IF Get(reply.body, "success", FALSE) THEN "return_success"
    ELSE IF Get(reply.body, "code", "N/A") \in InvalidTokenCodes THEN "recover"
    ELSE "return_failure"

(* A retry that hands an unsuccessful response back to the caller.         *)
LibraryRetryOutcomeReturns(reply) ==
    IF ~reply.json THEN "raise_transport"
    ELSE IF Get(reply.body, "success", FALSE) THEN "return_success"
    ELSE "return_failure"

(* library request(): what follows the reply to the retried call.          *)
LibraryRetryOutcome(reply) ==
    IF ~reply.json THEN "raise_transport"
    ELSE IF Get(reply.body, "success", FALSE) THEN "return_success"
    ELSE "raise_api"

(* The reply to the business call of task t arrives.                       *)
BusinessRecv(t) ==
    /\ pc[t] = "business"
    /\ \E reply \in BusinessReplies :
          LET how == IF variant = "component" THEN ComponentOutcome(reply)
                     ELSE IF biz_calls[t] = 1 THEN LibraryFirstOutcome(reply)
                     ELSE LibraryRetryOutcome(reply)
          IN  /\ o_last_resp' = IF t = Observed THEN reply ELSE o_last_resp
              /\ o_first_resp' = IF t = Observed /\ biz_calls[t] = 1
                                 THEN reply ELSE o_first_resp
              /\ IF how = "recover"
                 THEN /\ o_forced' = IF t = Observed THEN o_forced + 1
                                     ELSE o_forced
                      /\ GoToken(t, "acquire", "retry")
                 ELSE /\ GoDone(t, how)
                      /\ UNCHANGED o_forced
    /\ UNCHANGED <<now, clientvars, listenervars, hostvars, close_called,
                   stale, checkvars, o_forced_ok, o_acquire, probevars,
                   mgrvars, signvars>>

(* The host cancels the request of task t while it awaits the network:     *)
(* CancelledError is raised at the await.  It is not an Exception, so the  *)
(* handler at line 359 lets it pass; the finally clause at 362-363 runs    *)
(* when the task is inside _refresh_access_token.                          *)
Cancel(t) ==
    /\ pc[t] \in {"refresh", "acquire", "business"}
    /\ refreshing_token' =
          IF /\ variant = "component"
             /\ \/ pc[t] = "refresh"
                \/ pc[t] = "acquire"
                   /\ why[t] \in {"refresh_else", "refresh_except"}
          THEN FlagOnExit(refreshing_token, "cancelled")
          ELSE refreshing_token
    /\ GoDone(t, "cancelled")
    /\ UNCHANGED <<now, variant, token_info, issued, listenervars, hostvars,
                   close_called, stale, checkvars, recvvars, o_forced_ok,
                   o_acquire, probevars, mgrvars, signvars>>

(* Time passes.                                                            *)
Tick ==
    /\ now < MaxNow
    /\ now' = now + TickMs
    /\ UNCHANGED <<clientvars, listenervars, sessvars, taskvars, hostvars,
                   obsvars, o_acquire, probevars, mgrvars, signvars>>

---------------------------------------------------------------------------
(* The host: async_setup_entry of the integration (component client).      *)

(* Lines 67-76: construct the client, restore the saved token if there is  *)
(* one, and call get_access_token().                                       *)
HostSetup ==
    /\ host_pc = "start"
    /\ LET tok == IF entry_token # None
                  THEN from_dict(variant, entry_token) ELSE token_info
       IN  /\ token_info' = tok
           /\ injected_usable' = (/\ entry_token # None
                                  /\ ~is_expired(variant, tok, now))
    /\ host_pc' = "auth"
    /\ token_called' = TRUE
    /\ EnsureSession
    /\ UNCHANGED <<now, variant, refreshing_token, issued, listenervars,
                   close_called, stale, pc, why, biz_calls, entry_token,
                   obsvars, o_acquire, probevars, mgrvars, signvars>>

(* close(): the session is closed when the client owns it and it is open.  *)
(* A request() that has sent a business call holds that session from then  *)
(* on.  The first definition is a close() that does not ask whose session  *)
(* it is.                                                                  *)
ClosesAnySession(owns, sess) == sess = "open"

ClosesSession(owns, sess) == owns /\ sess = "open"

CloseSession ==
    /\ close_called' = TRUE
    /\ IF ClosesSession(owns_session, session)
       THEN /\ session' = "closed"
            /\ stale' = [t \in Tasks |->
                            stale[t] \/ (biz_calls[t] >= 1 /\ pc[t] # "done")]
       ELSE UNCHANGED <<session, stale>>
    /\ UNCHANGED owns_session

(* The reply to the host's get_access_token() arrives: on success the new  *)
(* token is saved to the entry (_update_token_in_entry) and setup goes on; *)
(* TrueXAPIError closes the client and becomes ConfigEntryAuthFailed,      *)
(* anything else propagates.                                               *)
HostAuthRecv ==
    /\ host_pc = "auth"
    /\ \E reply \in TokenReplies(now, issued) :
          /\ IF Success(reply)
             THEN /\ StoreToken(NewTokenInfo(variant, reply.body, now))
                  /\ entry_token' = to_dict(variant, token_info')
                  /\ host_pc' = "ready"
                  /\ UNCHANGED sessvars
             ELSE /\ host_pc' = IF reply.json THEN "auth_failed" ELSE "error"
                  /\ KeepToken
                  /\ UNCHANGED entry_token
                  /\ IF reply.json THEN CloseSession ELSE UNCHANGED sessvars
          /\ o_acquire' = AcquireEnded(reply, token_info, token_info')
    /\ UNCHANGED <<now, variant, refreshing_token, taskvars, injected_usable,
                   obsvars, probevars, mgrvars, signvars>>

(* close() is called: by whoever uses the client directly, or by           *)
(* async_unload_entry when the entry is unloaded.                          *)
Close ==
    /\ host_pc \in {"none", "ready"}
    /\ CloseSession
    /\ UNCHANGED <<now, clientvars, listenervars, taskvars, hostvars, obsvars,
                   o_acquire, probevars, mgrvars, signvars>>

(* Whoever handed the session in at construction closes it: the session is *)
(* theirs, and the client finds it closed at its next _ensure_session.     *)
SessionOwnerCloses ==
    /\ session = "open"
    /\ ~owns_session
    /\ session' = "closed_outside"
    /\ stale' = [t \in Tasks |->
                    stale[t] \/ (biz_calls[t] >= 1 /\ pc[t] # "done")]
    /\ UNCHANGED <<now, clientvars, listenervars, owns_session, close_called,
                   taskvars, hostvars, obsvars, o_acquire, probevars, mgrvars,
                   signvars>>

---------------------------------------------------------------------------
(* Token infos a host may have saved earlier and inject at construction:   *)
(* with or without access and refresh token, ending 60 s or 120 s from the *)
(* start of the run.                                                       *)
SavedTokens(v) ==
    {tok \in ProbeTokens(v) :
        /\ tok.uid = "u1"
        /\ tok.expire_time = 120
        /\ ExpiresAtMs(v, tok) \in {TickMs, 2 * TickMs}
        /\ tok.access_token # "" \/ tok.refresh_token # ""}

ClientStart ==
    /\ now = 0
    /\ ProbeUnused
    /\ ManagerUnused
    /\ SignerUnused
    /\ \/ \* the client used directly, empty or with an injected token
          /\ host_pc = "none"
          /\ entry_token = None
          /\ \E v \in Variants :
                \E tok \in {EmptyToken(v)}
                           \cup {from_dict(v, to_dict(v, s)) : s \in SavedTokens(v)} :
                   /\ ApiConstructed(v, tok)
                   /\ injected_usable = ~is_expired(v, tok, 0)
          /\ token_listener \in BOOLEAN
       \/ \* the client set up by the host from a config entry
          /\ host_pc = "start"
          /\ entry_token \in {None}
                \cup {to_dict("component", s) : s \in SavedTokens("component")}
          /\ ApiConstructed("component", EmptyToken("component"))
          /\ injected_usable = FALSE
          /\ token_listener = FALSE

Init == ClientStart /\ SessionNew

Next ==
    \/ \E t \in Tasks : StartRequest(t)
    \/ \E t \in Tasks : RefreshRecv(t)
    \/ \E t \in Tasks : AcquireRecv(t)
    \/ \E t \in Tasks : BusinessRecv(t)
    \/ \E t \in Tasks : Cancel(t)
    \/ Tick
    \/ HostSetup
    \/ HostAuthRecv

Spec == Init /\ [][Next]_vars

(* The client with its shutdown: close() may be called at any point, and   *)
(* a client used directly may have been given a session.                   *)
ShutdownInit ==
    /\ ClientStart
    /\ SessionNew \/ (host_pc = "none" /\ SessionInjected)

ShutdownNext == Next \/ Close

SpecShutdown == ShutdownInit /\ [][ShutdownNext]_vars

(* The client used directly with a session handed in at construction:      *)
(* requests, close() calls, and the session's owner closing it.  The clock *)
(* stands still: the token states that decide which calls a request makes  *)
(* (usable, expired with or without a refresh token, empty) are all among  *)
(* the initial ones.                                                       *)
InjectedInit ==
    /\ ClientStart
    /\ host_pc = "none"
    /\ SessionInjected

InjectedNext ==
    \/ \E t \in Tasks : StartRequest(t)
    \/ \E t \in Tasks : RefreshRecv(t)
    \/ \E t \in Tasks : AcquireRecv(t)
    \/ \E t \in Tasks : BusinessRecv(t)
    \/ Close
    \/ SessionOwnerCloses

SpecInjected == InjectedInit /\ [][InjectedNext]_vars

---------------------------------------------------------------------------
(* The device manager: Manager (truex_sharing/manager.py) and its copy     *)
(* without listeners, TrueXDeviceManager (device.py).  One coroutine of    *)
(* the manager runs at a time, as the host runs them; each action is the   *)
(* code between two awaited API calls.                                     *)

NumDevices == 2
MaxListeners == 2

Managers == {"Manager", "TrueXDeviceManager"}

DeviceName(n) == IF n = 1 THEN "d1" ELSE IF n = 2 THEN "d2" ELSE "d3"
DeviceIds == {DeviceName(n) : n \in 1..NumDevices}

(* What an awaited API call hands to the manager: it raises ("threw"), it  *)
(* returns a response without success ("fail"), or it returns a response   *)
(* with success and a result ("ok").                                       *)
Threw == [kind |-> "threw"]
Failed == [kind |-> "fail"]
Ok(result) == [kind |-> "ok", result |-> result]

(* CustomerDevice.from_api_response(dev_data): status, functions and       *)
(* status_range start empty.                                               *)
from_api_response(data) ==
    [id |-> Get(data, "id", ""), status |-> EmptyDict,
     functions |-> EmptyDict, status_range |-> EmptyDict]

(* for status_item in status_list: if code: device.status[code] = value    *)
RECURSIVE MergeStatus(_, _)
MergeStatus(status, status_list) ==
    IF status_list = <<>> THEN status
    ELSE LET status_item == Head(status_list)
             code == Get(status_item, "code", "")
             value == Get(status_item, "value", "None")
         IN  MergeStatus(IF code # "" THEN Put(status, code, value)
                         ELSE status,
                         Tail(status_list))

(* update_device_status, lines 134-139: the response is merged into the   *)
(* status the device has.  The definition before it is a merge that keeps  *)
(* only what the response carries.                                         *)
StatusReplaced(device, status_list) ==
    [device EXCEPT !.status = MergeStatus(EmptyDict, status_list)]

(* A merge that leaves a code the device already has as it is.             *)
StatusKeptFirst(device, status_list) ==
    LET merged == MergeStatus(device.status, status_list)
    IN  [device EXCEPT !.status =
            [code \in DOMAIN merged |->
                IF code \in DOMAIN device.status THEN device.status[code]
                ELSE merged[code]]]

StatusMerged(device, status_list) ==
    [device EXCEPT !.status = MergeStatus(@, status_list)]

(* json.loads(values) if isinstance(values, str) else values, with {} when *)
(* decoding fails.  A values field is [is_str, val]; the texts that decode *)
(* are listed with the object they decode to.                              *)
JsonObjects == [t \in {"{}", "{\"range\":[]}"} |->
                   IF t = "{}" THEN "obj:empty" ELSE "obj:range"]

(* The definition before ParseValues keeps the text of a values field that  *)
(* does not decode.                                                        *)
ParseValuesRaw(values) ==
    IF values.is_str
    THEN IF values.val \in DOMAIN JsonObjects THEN JsonObjects[values.val]
         ELSE values.val
    ELSE values.val

ParseValues(values) ==
    IF values.is_str
    THEN IF values.val \in DOMAIN JsonObjects THEN JsonObjects[values.val]
         ELSE "obj:empty"
    ELSE values.val

(* for func in result.get("functions", []): if code: functions[code] = ... *)
(* (the same loop fills status_range from result["status"]).               *)
RECURSIVE MergeEntries(_, _)
MergeEntries(schema, entries) ==
    IF entries = <<>> THEN schema
    ELSE LET entry == Head(entries)
             code == Get(entry, "code", "")
             parsed == [type |-> Get(entry, "type", ""),
                        values |-> ParseValues(
                            Get(entry, "values",
                                [is_str |-> TRUE, val |-> "{}"]))]
         IN  MergeEntries(IF code # "" THEN Put(schema, code, parsed)
                          ELSE schema,
                          Tail(entries))

(* _fetch_device_specifications, lines 87-123, on a successful response.   *)
MergeSpecification(device, result) ==
    [device EXCEPT
        !.functions = MergeEntries(@, Get(result, "functions", <<>>)),
        !.status_range = MergeEntries(@, Get(result, "status", <<>>))]

(* if not device_id: continue.  The definition before it is a loop that    *)
(* stores every entry.                                                     *)
SkipsEntryNever(device_id) == FALSE

SkipsEntry(device_id) == device_id = ""

(* update_device_cache, lines 56-71: every list entry with an id becomes a *)
(* new device, seeded with the entry's status, stored under its id.        *)
RECURSIVE CacheAfterList(_, _)
CacheAfterList(map, devices_data) ==
    IF devices_data = <<>> THEN map
    ELSE LET dev_data == Head(devices_data)
             device_id == Get(dev_data, "id", "")
             device == [from_api_response(dev_data) EXCEPT
                           !.status = MergeStatus(@,
                               Get(dev_data, "status", <<>>))]
         IN  CacheAfterList(IF SkipsEntry(device_id) THEN map
                            ELSE Put(map, device_id, device),
                            Tail(devices_data))

(* update_device_cache writes into self.device_map as it is; nothing is    *)
(* removed from it first.  The definition before it is a rebuild that      *)
(* starts from an empty map.                                               *)
CacheRebuiltFresh(map, devices_data) ==
    CacheAfterList(EmptyDict, devices_data)

CacheRebuilt(map, devices_data) ==
    CacheAfterList(map, devices_data)

(* The ids a device list names.                                            *)
ListedIds(devices_data) ==
    {Get(devices_data[i], "id", "") : i \in DOMAIN devices_data} \ {""}

(* Whether an exception raised by the awaited call leaves the per-device   *)
(* step: `except Exception` at lines 125-126 (specification) and 147-148   *)
(* (status) catches it.  The definitions that follow each are steps        *)
(* without the handler.                                                    *)
SpecFetchRaisesUncaught(reply) == reply.kind = "threw"

SpecFetchRaises(reply) == FALSE

StatusCallRaisesUncaught(reply) == reply.kind = "threw"

StatusCallRaises(reply) == FALSE

(* _fetch_device_specifications, lines 79-123: the device after the        *)
(* specification call was answered.  A response without success returns at *)
(* line 85 and an exception goes to the handler at 125, both before        *)
(* anything is written.  The definition before it drops the schema of the  *)
(* device when the response has no success.                                *)
SpecificationFetchedOrCleared(device, reply) ==
    IF reply.kind = "ok" THEN MergeSpecification(device, reply.result)
    ELSE IF reply.kind = "fail"
    THEN [device EXCEPT !.functions = EmptyDict, !.status_range = EmptyDict]
    ELSE device

SpecificationFetched(device, reply) ==
    IF reply.kind = "ok" THEN MergeSpecification(device, reply.result)
    ELSE device

(* update_device_cache, lines 48-51: an exception of get_user_devices is   *)
(* not caught and leaves the coroutine; a response without success is      *)
(* logged and the coroutine returns.                                       *)
ListCallRaises(reply) == reply.kind = "threw"

(* async_setup_entry, lines 89-96: what setup does once                    *)
(* update_device_cache is over.                                            *)
SetupAfterCache(raised) ==
    IF raised THEN "ConfigEntryAuthFailed" ELSE "setup_goes_on"

(* _async_update_data, lines 99-106: what the coordinator is told once     *)
(* update_device_status is over.                                           *)
UpdateAfterStatus(raised) ==
    IF raised THEN "UpdateFailed" ELSE "updated"

(* for listener in self.device_listeners: listener.update_device(device):  *)
(* the devices handed to the listeners, in order, after a status call.     *)
(* TrueXDeviceManager has no listeners.  The definition before it hands    *)
(* out the device as it was before the merge.                              *)
NotifiedStale(mgr, listeners, reply, before, after) ==
    IF mgr = "Manager" /\ reply.kind = "ok"
    THEN [i \in 1..listeners |-> before]
    ELSE <<>>

Notified(mgr, listeners, reply, before, after) ==
    IF mgr = "Manager" /\ reply.kind = "ok"
    THEN [i \in 1..listeners |-> after]
    ELSE <<>>

(* What the API calls of the manager may answer.                           *)
SeedStatus ==
    {<<>>,
     <<[code |-> "switch_1", value |-> "false"],
       [code |-> "bright_value", value |-> "500"]>>}

RECURSIVE DeviceLists(_)
DeviceLists(n) ==
    IF n = 0 THEN {<<>>}
    ELSE DeviceLists(n - 1)
         \cup {Append(l, [id |-> DeviceName(n), status |-> st]) :
                  l \in DeviceLists(n - 1), st \in SeedStatus}

(* get_user_devices: every list of known devices, and one that starts with *)
(* an entry without an id and one with an empty id.                        *)
ListReplies ==
    {Threw, Failed}
    \cup {Ok(l) : l \in DeviceLists(NumDevices)}
    \cup {Ok(<<[status |-> <<>>],
               [id |-> "",
                status |-> <<[code |-> "switch_1", value |-> "true"]>>],
               [id |-> DeviceName(1), status |-> <<>>]>>)}

StrValues(text) == [is_str |-> TRUE, val |-> text]

(* get_device_specifications                                               *)
SpecResults ==
    {EmptyDict,
     [functions |-> <<[code |-> "bright_value", type |-> "Integer",
                       values |-> StrValues("oops")],
                      [type |-> "Raw"],
                      [code |-> "switch_1", type |-> "Enum",
                       values |-> [is_str |-> FALSE, val |-> "obj:range"]]>>,
      status |-> <<[code |-> "bright_value", type |-> "Integer",
                    values |-> StrValues("{\"range\":[]}")]>>]}

SpecReplies == {Threw, Failed} \cup {Ok(r) : r \in SpecResults}

(* get_device_status                                                       *)
StatusResults ==
    {<<>>,
     <<[code |-> "switch_1", value |-> "true"]>>,
     <<[value |-> "1"],
       [code |-> "switch_1", value |-> "true"],
       [code |-> "bright_value", value |-> "500"],
       [code |-> "switch_1", value |-> "false"]>>}

StatusReplies == {Threw, Failed} \cup {Ok(r) : r \in StatusResults}

(* send_device_commands                                                    *)
CommandReplies == {Threw, Failed, Ok(TRUE)}

(* The commands a caller hands to send_commands.                           *)
CommandLists == {<<[code |-> "switch_1", value |-> "true"]>>}

(* send_commands, lines 150-165: the commands go to the API and device_map *)
(* is not written.  The definition before it is a dispatch that writes the *)
(* commanded values into the status of the device at once.                 *)
CommandsAppliedLocally(map, device_id, commands) ==
    IF device_id \in DOMAIN map
    THEN [map EXCEPT ![device_id] = StatusMerged(@, commands)]
    ELSE map

CommandsForwarded(map, device_id, commands) == map

(* What send_commands returns: True at line 158 when the response has      *)
(* success, False at 162 when it has not and at 165 when the call raised.  *)
(* The definition before it reports every dispatch as done.                *)
CommandResultAlways(reply) == TRUE

CommandResult(reply) == reply.kind = "ok"

(* A manager right after construction.                                     *)
ManagerInit ==
    /\ NoCycles
    /\ m_variant \in Managers
    /\ device_map = EmptyDict
    /\ device_listeners = 0
    /\ m_pc = "idle"
    /\ m_cur = ""
    /\ m_todo = {}
    /\ m_last = "none"
    /\ m_list = NoList
    /\ m_listed = {}
    /\ m_result = EmptyDict
    /\ m_raised = FALSE
    /\ m_poll = None
    /\ m_returned = None

(* A manager coroutine is entered.                                         *)
StartOp(op) ==
    /\ m_last' = op
    /\ m_list' = NoList
    /\ m_listed' = {}
    /\ m_result' = EmptyDict
    /\ m_poll' = None
    /\ m_returned' = None

(* The coroutine ends: it returns, or an exception leaves it.              *)
EndOp(raised) ==
    /\ m_pc' = "idle"
    /\ m_cur' = ""
    /\ m_todo' = {}
    /\ m_raised' = raised

(* The device the dict yields next.  A dict yields its keys in the order   *)
(* of their first insertion; what a visit does to a device does not depend *)
(* on its place in that order, and the devices are visited by number here. *)
NextDevice(remaining) ==
    DeviceName(CHOOSE n \in 1..NumDevices :
                  /\ DeviceName(n) \in remaining
                  /\ \A k \in 1..(n - 1) : DeviceName(k) \notin remaining)

(* for device_id, device in self.device_map.items(): the loop goes to the  *)
(* next device and awaits its call (`step`), or ends.                      *)
Visit(remaining, step) ==
    IF remaining = {} THEN EndOp(FALSE)
    ELSE /\ m_cur' = NextDevice(remaining)
         /\ m_todo' = remaining \ {NextDevice(remaining)}
         /\ m_pc' = step
         /\ m_raised' = FALSE

(* add_device_listener                                                     *)
AddDeviceListener ==
    /\ m_variant = "Manager"
    /\ m_pc # "off"
    /\ device_listeners < MaxListeners
    /\ device_listeners' = device_listeners + 1
    /\ UNCHANGED <<apivars, probevars, signvars, pollvars, m_variant,
                   device_map, loopvars, opvars>>

(* self.device_map[device_id] = device for the ids in `replaced`: an       *)
(* update_device_status coroutine suspended at the status call of one of   *)
(* them goes on holding the object that was in the map before.             *)
OrphanedBy(replaced) ==
    [c \in Cycles |->
        c_orphan[c] \/ (c_pc[c] = "status" /\ c_cur[c] \in replaced)]

(* update_device_cache up to `await self.api.get_user_devices(...)`.       *)
UpdateDeviceCacheStart ==
    /\ m_pc = "idle"
    /\ StartOp("update_device_cache")
    /\ m_pc' = "list"
    /\ m_raised' = FALSE
    /\ UNCHANGED <<apivars, probevars, signvars, pollvars, registryvars,
                   m_cur, m_todo>>

(* The device list arrives: lines 49-71, then the first specification      *)
(* call of the loop at 74-75.                                              *)
DeviceListRecv ==
    /\ m_pc = "list"
    /\ \E reply \in ListReplies :
          /\ m_list' = [kind |-> reply.kind,
                        entries |-> IF reply.kind = "ok"
                                    THEN Len(reply.result) ELSE 0]
          /\ IF reply.kind = "threw"
             THEN /\ EndOp(ListCallRaises(reply))
                  /\ UNCHANGED <<device_map, m_listed>>
             ELSE IF reply.kind = "fail"
             THEN /\ EndOp(ListCallRaises(reply))
                  /\ UNCHANGED <<device_map, m_listed>>
             ELSE /\ device_map' = CacheRebuilt(device_map, reply.result)
                  /\ m_listed' = ListedIds(reply.result)
                  /\ Visit(DOMAIN device_map', "spec")
          /\ c_orphan' = OrphanedBy(IF reply.kind = "ok"
                                    THEN ListedIds(reply.result) ELSE {})
    /\ UNCHANGED <<apivars, probevars, signvars, cyclevars, m_variant,
                   device_listeners, m_last, m_result, m_poll, m_returned>>

(* The specification of m_cur arrives (_fetch_device_specifications), and  *)
(* the loop of update_device_cache goes on.                                *)
SpecRecv ==
    /\ m_pc = "spec"
    /\ \E reply \in SpecReplies :
          /\ device_map' =
                [device_map EXCEPT ![m_cur] = SpecificationFetched(@, reply)]
          /\ m_result' = Put(m_result, m_cur, reply.kind)
          /\ IF SpecFetchRaises(reply) THEN EndOp(TRUE)
             ELSE Visit(m_todo, "spec")
    /\ UNCHANGED <<apivars, probevars, signvars, pollvars, m_variant,
                   device_listeners, m_last, m_list, m_listed, m_poll,
                   m_returned>>

(* update_device_status up to its first `await get_device_status(...)`.    *)
UpdateDeviceStatusStart ==
    /\ m_pc = "idle"
    /\ StartOp("update_device_status")
    /\ Visit(DOMAIN device_map, "status")
    /\ UNCHANGED <<apivars, probevars, signvars, pollvars, registryvars>>

(* The status of m_cur arrives: lines 133-148, then the next device.       *)
StatusRecv ==
    /\ m_pc = "status"
    /\ \E reply \in StatusReplies :
          LET before == device_map[m_cur]
              after == IF reply.kind = "ok"
                       THEN StatusMerged(before, reply.result)
                       ELSE before
          IN  /\ device_map' = [device_map EXCEPT ![m_cur] = after]
              /\ m_poll' = [id |-> m_cur, reply |-> reply,
                            before |-> before.status,
                            listeners |-> device_listeners,
                            notified |-> Notified(m_variant, device_listeners,
                                                  reply, before, after)]
              /\ m_result' = Put(m_result, m_cur, reply.kind)
              /\ IF StatusCallRaises(reply) THEN EndOp(TRUE)
                 ELSE Visit(m_todo, "status")
    /\ UNCHANGED <<apivars, probevars, signvars, pollvars, m_variant,
                   device_listeners, m_last, m_list, m_listed, m_returned>>

(* send_commands up to `await self.api.send_device_commands(...)`.         *)
SendCommands ==
    /\ m_pc = "idle"
    /\ StartOp("send_commands")
    /\ \E device_id \in DeviceIds, commands \in CommandLists :
          /\ device_map' = CommandsForwarded(device_map, device_id, commands)
          /\ m_cur' = device_id
    /\ m_pc' = "command"
    /\ m_raised' = FALSE
    /\ UNCHANGED <<apivars, probevars, signvars, pollvars, m_variant,
                   device_listeners, m_todo>>

(* The answer to the commands call: lines 156-165.                         *)
CommandRecv ==
    /\ m_pc = "command"
    /\ \E reply \in CommandReplies :
          m_returned' = [id |-> m_cur, reply |-> reply.kind,
                         value |-> CommandResult(reply)]
    /\ EndOp(FALSE)
    /\ UNCHANGED <<apivars, probevars, signvars, pollvars, registryvars,
                   m_last, m_list, m_listed, m_result, m_poll>>

ManagerNext ==
    \/ AddDeviceListener
    \/ UpdateDeviceCacheStart
    \/ DeviceListRecv
    \/ SpecRecv
    \/ UpdateDeviceStatusStart
    \/ StatusRecv
    \/ SendCommands
    \/ CommandRecv

(* The manager on its own, its API calls answered by the sets above; the   *)
(* client behind it is idle.                                               *)
ManagerStart ==
    /\ now = 0
    /\ ApiConstructed("component", EmptyToken("component"))
    /\ host_pc = "none"
    /\ entry_token = None
    /\ injected_usable = FALSE
    /\ token_listener = FALSE
    /\ SessionNew
    /\ ProbeUnused
    /\ SignerUnused
    /\ ManagerInit

SpecManager == ManagerStart /\ [][ManagerNext]_vars

---------------------------------------------------------------------------
(* Overlapping update_device_status coroutines.  The coordinator starts a  *)
(* cycle per refresh; a cycle is suspended at each status call, and other  *)
(* cycles and update_device_cache run meanwhile on the same device_map.    *)

(* A listener whose update_device raises is registered.                    *)
AddRaisingListener ==
    /\ m_variant = "Manager"
    /\ m_pc # "off"
    /\ device_listeners < MaxListeners
    /\ device_listeners' = device_listeners + 1
    /\ l_raises' = l_raises \cup {device_listeners + 1}
    /\ UNCHANGED <<apivars, probevars, signvars, m_variant, device_map,
                   loopvars, opvars, c_pc, c_cur, c_todo, c_size, c_orphan,
                   c_keys, c_polled, c_poll, c_ended>>

(* for listener in self.device_listeners: listener.update_device(device):  *)
(* the listeners called, in order, after a merge.  The first one that      *)
(* raises ends the loop: the exception goes to the handler at line 147.    *)
ListenersCalled(listeners, raises, reply) ==
    IF reply.kind # "ok" THEN <<>>
    ELSE LET stop == IF \E i \in 1..listeners : i \in raises
                     THEN CHOOSE i \in 1..listeners :
                             /\ i \in raises
                             /\ \A j \in 1..(i - 1) : j \notin raises
                     ELSE listeners
         IN  [i \in 1..stop |-> i]

(* next() on the iterator of device_map.items(): RuntimeError when the     *)
(* dict has another size than when the iterator was made.                  *)
IteratorRaises(size_at_start, map) ==
    Cardinality(DOMAIN map) # size_at_start

(* The cycle c ends.                                                       *)
CycleEnds(c, raised) ==
    /\ c_pc' = [c_pc EXCEPT ![c] = "idle"]
    /\ c_cur' = [c_cur EXCEPT ![c] = ""]
    /\ c_todo' = [c_todo EXCEPT ![c] = {}]
    /\ c_size' = [c_size EXCEPT ![c] = 0]
    /\ c_orphan' = [c_orphan EXCEPT ![c] = FALSE]
    /\ c_keys' = [c_keys EXCEPT ![c] = {}]
    /\ c_polled' = [c_polled EXCEPT ![c] = {}]
    /\ c_ended' = [cycle |-> c, raised |-> raised]

(* The iterator of cycle c yields the next device and its status call is   *)
(* issued.                                                                 *)
CycleVisits(c, remaining) ==
    /\ c_pc' = [c_pc EXCEPT ![c] = "status"]
    /\ c_cur' = [c_cur EXCEPT ![c] = NextDevice(remaining)]
    /\ c_todo' = [c_todo EXCEPT ![c] = remaining \ {NextDevice(remaining)}]
    /\ c_orphan' = [c_orphan EXCEPT ![c] = FALSE]
    /\ c_polled' = [c_polled EXCEPT ![c] = @ \cup {NextDevice(remaining)}]
    /\ UNCHANGED c_ended

(* update_device_status is called: up to the first status call, or to the  *)
(* end when device_map is empty.                                           *)
CycleStart(c) ==
    /\ m_pc # "off"
    /\ c_pc[c] = "idle"
    /\ IF device_map = EmptyDict
       THEN /\ c_ended' = [cycle |-> c, raised |-> FALSE]
            /\ UNCHANGED <<c_pc, c_cur, c_todo, c_size, c_orphan, c_keys,
                           c_polled>>
       ELSE /\ CycleVisits(c, DOMAIN device_map)
            /\ c_size' = [c_size EXCEPT ![c] = Cardinality(DOMAIN device_map)]
            /\ c_keys' = [c_keys EXCEPT ![c] = DOMAIN device_map]
    /\ UNCHANGED <<apivars, probevars, signvars, registryvars, loopvars,
                   opvars, l_raises, c_poll>>

(* The status of c_cur[c] arrives in cycle c: the merge and the listener   *)
(* calls of lines 133-148, then next() on the iterator and the status call *)
(* of the next device.  The merge goes into the object the cycle holds,    *)
(* which is the one in device_map unless it was replaced meanwhile.        *)
CycleStatusRecv(c) ==
    /\ c_pc[c] = "status"
    /\ \E reply \in StatusReplies :
          LET before == device_map[c_cur[c]]
              after == IF reply.kind = "ok" /\ ~c_orphan[c]
                       THEN StatusMerged(before, reply.result)
                       ELSE before
          IN  /\ device_map' = [device_map EXCEPT ![c_cur[c]] = after]
              /\ c_poll' = [cycle |-> c, id |-> c_cur[c], reply |-> reply,
                            held |-> ~c_orphan[c],
                            called |-> ListenersCalled(device_listeners,
                                                       l_raises, reply)]
              /\ IF StatusCallRaises(reply) THEN CycleEnds(c, TRUE)
                 ELSE IF IteratorRaises(c_size[c], device_map)
                 THEN CycleEnds(c, TRUE)
                 ELSE IF c_todo[c] = {} THEN CycleEnds(c, FALSE)
                 ELSE /\ CycleVisits(c, c_todo[c])
                      /\ UNCHANGED <<c_size, c_keys>>
    /\ UNCHANGED <<apivars, probevars, signvars, m_variant, device_listeners,
                   loopvars, opvars, l_raises>>

(* Overlapping polling cycles of the Manager on a device_map as            *)
(* update_device_cache leaves it: the devices of a device list with the    *)
(* status the list seeded.                                                 *)
CyclesStart ==
    /\ now = 0
    /\ ApiConstructed("component", EmptyToken("component"))
    /\ host_pc = "none"
    /\ entry_token = None
    /\ injected_usable = FALSE
    /\ token_listener = FALSE
    /\ SessionNew
    /\ ProbeUnused
    /\ SignerUnused
    /\ NoCycles
    /\ m_variant = "Manager"
    /\ \E devices_data \in DeviceLists(NumDevices) :
          /\ device_map = CacheRebuilt(EmptyDict, devices_data)
          /\ m_list = [kind |-> "ok", entries |-> Len(devices_data)]
          /\ m_listed = ListedIds(devices_data)
          /\ m_result = [d \in ListedIds(devices_data) |-> "fail"]
    /\ device_listeners = 0
    /\ m_pc = "idle"
    /\ m_cur = ""
    /\ m_todo = {}
    /\ m_last = "update_device_cache"
    /\ m_raised = FALSE
    /\ m_poll = None
    /\ m_returned = None

CyclesNext ==
    \/ \E c \in Cycles : CycleStart(c)
    \/ \E c \in Cycles : CycleStatusRecv(c)

SpecCycles == CyclesStart /\ [][CyclesNext]_vars

(* One polling cycle at a time with listeners registered, some of which    *)
(* raise.                                                                  *)
FirstCycle == CHOOSE c \in Cycles : \A d \in Cycles : c <= d

ListenersNext ==
    \/ AddDeviceListener
    \/ AddRaisingListener
    \/ CycleStart(FirstCycle)
    \/ CycleStatusRecv(FirstCycle)

SpecListeners == CyclesStart /\ [][ListenersNext]_vars

(* One polling cycle with update_device_cache running while the cycle is   *)
(* suspended at a status call.                                             *)

RebuildsStart ==
    /\ ManagerStart
    /\ m_variant = "Manager"

RebuildsNext ==
    \/ UpdateDeviceCacheStart
    \/ DeviceListRecv
    \/ SpecRecv
    \/ CycleStart(FirstCycle)
    \/ CycleStatusRecv(FirstCycle)

SpecRebuilds == RebuildsStart /\ [][RebuildsNext]_vars

---------------------------------------------------------------------------
(* Properties of the token store (checked under SpecToken).                *)

(* C8: is_expired is true exactly when the access token is empty or        *)
(* now_ms >= expires_at_ms - 60000, the boundary included.                 *)
C8_IsExpiredExact ==
    p_pc = "checked" =>
        p_expired = (\/ p_tok.access_token = ""
                     \/ now >= ExpiresAtMs(variant, p_tok) - BufferMs)

(* C9: from_dict(to_dict(t)) has the access token, refresh token, uid and  *)
(* expiry of t, and answers is_expired as t does at every clock value.     *)
C9_RoundTrip ==
    p_pc = "restored" =>
        /\ p_restored.access_token = p_tok.access_token
        /\ p_restored.refresh_token = p_tok.refresh_token
        /\ p_restored.uid = p_tok.uid
        /\ p_restored.expire_time = p_tok.expire_time
        /\ ExpiresAtMs(variant, p_restored) = ExpiresAtMs(variant, p_tok)
        /\ \A c \in Clocks :
              is_expired(variant, p_restored, c) = is_expired(variant, p_tok, c)

(* A token with every field set, usable now and expired later, has been    *)
(* saved and restored.                                                     *)
C9_Witness ==
    /\ p_pc = "restored"
    /\ p_tok.access_token # ""
    /\ p_tok.refresh_token # ""
    /\ p_tok.uid # ""
    /\ ~is_expired(variant, p_tok, now)
    /\ \E c \in Clocks : is_expired(variant, p_tok, c)

(* C27: a token stored from a response that arrived at local time T with   *)
(* lifetime L is usable at every later instant c exactly when              *)
(* c < T + L - 60 s, whatever `t` the response carried.                    *)
C27_ExpiryFromAcquireTime ==
    p_pc = "acquired" =>
        \A c \in Clocks :
            c >= now =>
               (~is_expired(variant, p_tok, c))
                   = (c < now + p_tok.expire_time * 1000 - BufferMs)

---------------------------------------------------------------------------
(* Properties of the signer (checked under SpecSigner).                    *)

(* The part of a string to sign that follows the method, the hash and the  *)
(* empty header line.                                                      *)
UrlOf(out) == SubSeq(out, 7, Len(out))

(* C26: the string to sign is the same for every insertion order of the    *)
(* items of the query, and its last line is the path, then, when the query *)
(* has items, "?" and one key=value per item with the keys in rising       *)
(* order and "&" between them.                                             *)
C26_CanonicalSorted ==
    s_pc = "built" =>
        LET n == Len(s_req.query)
            url == UrlOf(s_out)
        IN  /\ \A q \in Reorderings(s_req.query) :
                  string_to_sign(variant, [s_req EXCEPT !.query = q]) = s_out
            /\ SubSeq(s_out, 1, 6)
                  = <<s_req.method, "\n", Sha256Hex(s_req.body), "\n", "", "\n">>
            /\ url[1] = s_req.path
            /\ Len(url) = IF n = 0 THEN 1 ELSE 4 * n + 1
            /\ n > 0 => url[2] = "?"
            /\ \A i \in 1..n :
                  /\ \E j \in 1..n :
                        /\ url[4 * i - 1] = s_req.query[j][1]
                        /\ url[4 * i + 1] = Formatted(s_req.query[j][2])
                  /\ url[4 * i] = "="
                  /\ i < n => /\ url[4 * i + 2] = "&"
                              /\ KeyLess(url[4 * i - 1], url[4 * i + 3])

(* The string to sign of a request whose query was filled in falling key   *)
(* order, an upper-case key and a key that is a prefix of another among    *)
(* them, has been built.                                                   *)
C26_Witness ==
    /\ s_pc = "built"
    /\ Len(s_req.query) >= 2
    /\ KeyLess(s_req.query[2][1], s_req.query[1][1])
    /\ s_req.body # ""

---------------------------------------------------------------------------
(* Properties of request() and of token maintenance (checked under Spec).  *)

(* C1: token refresh is single-flight: at most one call to                 *)
(* GET /v1.0/token/{refresh_token} is in flight at any time.               *)
C1_RefreshSingleFlight ==
    Cardinality({t \in Tasks : pc[t] = "refresh"}) <= 1

(* C2: a request that found the token expired sends its business call only *)
(* after a token refresh or acquire has completed since that check, so it  *)
(* is signed with the token that call produced, never the expired one.     *)
C2_BusinessAfterRefresh ==
    (biz_calls[Observed] >= 1 /\ o_saw_expired) =>
        o_issued_at_send > o_issued_at_check

(* C3: with no usable token and no refresh token held, concurrent request  *)
(* calls issue only one get_access_token() among them.                     *)
C3_AcquireSingleFlight ==
    Cardinality({t \in Tasks : pc[t] = "acquire" /\ why[t] = "ensure"}) <= 1

(* The observed request is over, and the transport answered its first      *)
(* business call with the invalid-token code and every later call of the   *)
(* request with success.                                                   *)
InvalidOnceThenSuccess ==
    /\ pc[Observed] = "done"
    /\ o_first_resp # None
    /\ o_first_resp.ok /\ o_first_resp.json
    /\ ~o_first_resp.body.success
    /\ o_first_resp.body.code \in InvalidTokenCodes
    /\ o_forced >= 1 => o_forced_ok
    /\ biz_calls[Observed] >= 2 => Success(o_last_resp)

(* C4: after an invalid-token answer followed by success, request returns  *)
(* the success response after exactly one forced get_access_token and      *)
(* exactly one retry.                                                      *)
C4_RetryOnInvalidToken ==
    InvalidOnceThenSuccess =>
        /\ o_outcome = "return_success"
        /\ o_forced = 1
        /\ biz_calls[Observed] = 2

(* C5: one request issues at most two business calls and at most one       *)
(* forced get_access_token, and when the retried call is answered with     *)
(* success=false it raises TrueXAPIError.                                  *)
C5_AtMostOneRecovery ==
    /\ \A t \in Tasks : biz_calls[t] <= 2
    /\ o_forced <= 1
    /\ (/\ pc[Observed] = "done"
        /\ biz_calls[Observed] = 2
        /\ o_outcome # "cancelled"
        /\ o_last_resp.json
        /\ ~o_last_resp.body.success)
       => o_outcome = "raise_api"

(* A request whose retried call was answered with success=false again has  *)
(* ended.                                                                  *)
C5_Witness ==
    /\ pc[Observed] = "done"
    /\ biz_calls[Observed] = 2
    /\ o_forced = 1
    /\ o_outcome # "cancelled"
    /\ o_last_resp.json
    /\ ~o_last_resp.body.success
    /\ o_last_resp.body.code \in InvalidTokenCodes

(* C6: a business call answered (HTTP 2xx, JSON) with success=false and a  *)
(* code other than the invalid-token code makes request raise              *)
(* TrueXAPIError at once: no get_access_token, no second business call,    *)
(* no normal return.                                                       *)
C6_OtherFailureRaises ==
    (/\ pc[Observed] = "done"
     /\ o_first_resp # None
     /\ o_first_resp.ok /\ o_first_resp.json
     /\ ~o_first_resp.body.success
     /\ o_first_resp.body.code \notin InvalidTokenCodes)
    => /\ o_outcome = "raise_api"
       /\ o_forced = 0
       /\ biz_calls[Observed] = 1

(* C7: a business call that fails at the transport (non-2xx status, or a   *)
(* body that is not JSON) never ends in a normal return.                   *)
C7_TransportFailureRaises ==
    (/\ pc[Observed] = "done"
     /\ o_last_resp # None
     /\ ~o_last_resp.ok \/ ~o_last_resp.json)
    => o_outcome \in {"raise_api", "raise_transport"}

(* C10: when a saved token that is still usable was injected, no token     *)
(* endpoint call is issued before the first business call.                 *)
C10_ResumeWithoutReauth ==
    (/\ injected_usable
     /\ \A t \in Tasks : biz_calls[t] = 0
     /\ ~is_expired(variant, token_info, now))
    => ~token_called

---------------------------------------------------------------------------
(* Token replacement, the token listener and failed token calls (Spec).    *)

(* The instants the clock of a run can show.                               *)
RunClocks == {k * TickMs : k \in 0..MaxTicks}

(* Every token info that is the whole content of one token response, the   *)
(* empty token of a fresh client, or a token the host injected.            *)
CompleteTokens ==
    [v \in Variants |->
        {EmptyToken(v)}
        \cup {from_dict(v, to_dict(v, s)) : s \in SavedTokens(v)}
        \cup UNION {{NewTokenInfo(v, TokenBody(c, n, r, e), c) :
                        r \in {"", RefreshName(n)}, e \in ExpireTimes} :
                    c \in RunClocks, n \in 1..MaxIssued}]

(* C11: in every reachable state, token calls in flight, failed or         *)
(* cancelled included, the stored token info is the initial or injected    *)
(* one or the complete content of one successful token response, never a   *)
(* mix of two.                                                             *)
C11_TokenAtomic == token_info \in CompleteTokens[variant]

(* A token response has been stored, the observed request was cancelled    *)
(* and another token call is in flight.                                    *)
C11_Witness ==
    /\ issued >= 1
    /\ o_outcome = "cancelled"
    /\ \E t \in Tasks : pc[t] \in {"refresh", "acquire"}
    /\ token_info.refresh_token = ""

(* C12: the listener, if one is set, has been called once per stored token *)
(* response and not otherwise, and its last argument is the snapshot of    *)
(* the token now stored.                                                   *)
C12_ListenerNotified ==
    /\ notified = (IF token_listener THEN issued ELSE 0)
    /\ notified > 0 => last_snapshot = to_dict(variant, token_info)

(* With a listener set, a token response was stored and a later            *)
(* get_access_token failed.                                                *)
C12_Witness ==
    /\ token_listener
    /\ notified >= 1
    /\ o_acquire # None

(* C13: a get_access_token() that receives a non-success response raises   *)
(* TrueXAPIError and leaves the stored token info as it was.               *)
C13_AcquireFailureKeepsToken ==
    (o_acquire # None /\ o_acquire.resp.json) =>
        /\ o_acquire.raised = "raise_api"
        /\ o_acquire.kept

(* A get_access_token() got a non-success response while a usable token    *)
(* from an earlier response was stored.                                    *)
C13_Witness ==
    /\ o_acquire # None
    /\ o_acquire.resp.json
    /\ issued >= 1
    /\ token_info.access_token # ""

(* The call sites of get_access_token() inside the refresh.                *)
FallbackSites == {"refresh_else", "refresh_except", "refresh_fallback"}

(* C14: a refresh call that fails is followed by get_access_token(), not   *)
(* by an error of the request, and when that get_access_token() succeeds   *)
(* the request goes on with the new token stored.                          *)
C14_RefreshFallsBack ==
    [][/\ (/\ pc[Observed] = "refresh"
           /\ pc'[Observed] # "refresh"
           /\ o_outcome' # "cancelled")
          => pc'[Observed] \in {"business", "acquire"}
       /\ (/\ pc[Observed] = "acquire"
           /\ why[Observed] \in FallbackSites
           /\ issued' > issued
           /\ pc'[Observed] # "acquire")
          => /\ pc'[Observed] = "business"
             /\ token_info' # token_info]_vars

(* C28: a call of GET /v1.0/token/{refresh_token} is issued only while a   *)
(* refresh token is stored, and a request that finds the token expired     *)
(* with no refresh token stored calls get_access_token() instead.          *)
C28_NoRefreshWithoutToken ==
    [][\A t \in Tasks :
          /\ (pc[t] # "refresh" /\ pc'[t] = "refresh")
                => token_info.refresh_token # ""
          /\ (/\ pc[t] = "idle" /\ pc'[t] # "idle"
              /\ is_expired(variant, token_info, now)
              /\ token_info.refresh_token = "")
                => pc'[t] = "acquire"]_vars

(* A token that came without a refresh token has expired, and the request  *)
(* that found it so awaits get_access_token().                             *)
C28_Witness ==
    /\ issued >= 1
    /\ token_info.access_token # ""
    /\ token_info.refresh_token = ""
    /\ is_expired(variant, token_info, now)
    /\ \E t \in Tasks : pc[t] = "acquire" /\ why[t] = "ensure"

(* Task t is inside _refresh_access_token: at the refresh call or at one   *)
(* of the fallback get_access_token() calls.                               *)
InRefresh(t) ==
    \/ pc[t] = "refresh"
    \/ pc[t] = "acquire" /\ why[t] \in FallbackSites

(* C34: the refresh guard flag is always released: whenever no refresh is  *)
(* in flight the flag is false, however the last refresh ended, so that    *)
(* the next request that finds the token expired starts a new refresh.     *)
C34_GuardReleased ==
    (\A t \in Tasks : ~InRefresh(t)) => ~refreshing_token

(* A request whose refresh failed and whose fallback get_access_token()    *)
(* raised is over, no token has been stored since, and another request     *)
(* has started a new refresh.                                              *)
C34_Witness ==
    /\ variant = "component"
    /\ pc[Observed] = "done"
    /\ o_saw_expired
    /\ biz_calls[Observed] = 0
    /\ o_outcome \in {"raise_api", "raise_transport"}
    /\ o_acquire # None
    /\ issued = o_issued_at_check
    /\ token_info.refresh_token # ""
    /\ refreshing_token
    /\ \E t \in Tasks : pc[t] = "refresh"

(* The same after a cancellation: the request that held the flag was       *)
(* cancelled at its refresh call and another request has started a new     *)
(* refresh.                                                                *)
C34_WitnessCancelled ==
    /\ variant = "component"
    /\ pc[Observed] = "done"
    /\ o_saw_expired
    /\ biz_calls[Observed] = 0
    /\ o_outcome = "cancelled"
    /\ issued = o_issued_at_check
    /\ token_info.refresh_token # ""
    /\ \E t \in Tasks : pc[t] = "refresh"

(* C35: one refresh attempt issues at most one call to the refresh         *)
(* endpoint and at most one fallback get_access_token(): the refresh call  *)
(* is issued on entry only, and a fallback get_access_token() only as the  *)
(* step that follows the answer to the refresh call, never after another   *)
(* fallback.                                                               *)
C35_OneFallbackPerRefresh ==
    [][\A t \in Tasks :
          /\ (pc[t] # "refresh" /\ pc'[t] = "refresh") => pc[t] = "idle"
          /\ (/\ pc'[t] = "acquire"
              /\ why'[t] \in FallbackSites
              /\ pc[t] # "acquire" \/ why[t] # why'[t])
                => pc[t] = "refresh"]_vars

(* C36: no business call is issued while the stored access token is empty: *)
(* the token a business call is signed with, which is the one stored when  *)
(* the call leaves, has a non-empty access token.                          *)
C36_BusinessCallHasToken ==
    [][\A t \in Tasks :
          biz_calls'[t] > biz_calls[t] => token_info'.access_token # ""]_vars

(* C37: when the forced get_access_token() of the invalid-token recovery   *)
(* fails, request fails with the error of that call, no retry of the       *)
(* business call is issued, and the stored token is what it was before the *)
(* answer to the forced call came.                                         *)
C37_ForcedAcquireFailure ==
    [][(/\ pc[Observed] = "acquire"
        /\ why[Observed] = "retry"
        /\ pc'[Observed] # "acquire"
        /\ issued' = issued
        /\ o_outcome' # "cancelled")
       => /\ pc'[Observed] = "done"
          /\ o_acquire' # None
          /\ o_outcome' = (IF o_acquire'.resp.json THEN "raise_api"
                           ELSE "raise_transport")
          /\ biz_calls'[Observed] = biz_calls[Observed]
          /\ token_info' = token_info]_vars

(* A request whose first business call was answered with the invalid-token *)
(* code and whose forced get_access_token() then failed is over; a token   *)
(* is stored.                                                              *)
C37_Witness ==
    /\ variant = "library"
    /\ pc[Observed] = "done"
    /\ o_forced = 1
    /\ ~o_forced_ok
    /\ o_acquire # None
    /\ o_outcome \in {"raise_api", "raise_transport"}
    /\ biz_calls[Observed] = 1
    /\ token_info.access_token # ""

(* C32: a business call carries a `t` header equal to the timestamp that   *)
(* was signed and an access_token header equal to the access token that    *)
(* was signed, whatever has happened to the stored token since the call    *)
(* left.                                                                   *)
C32_HeadersMatchSignature ==
    o_sent # None =>
        /\ o_sent.headers.t = o_sent.signed.t
        /\ "access_token" \in DOMAIN o_sent.headers
        /\ o_sent.headers.access_token = o_sent.signed.access_token

(* A business call is in flight and another task has replaced the stored   *)
(* token since the call was signed.                                        *)
C32_Witness ==
    /\ pc[Observed] = "business"
    /\ o_sent # None
    /\ o_sent.signed.access_token # ""
    /\ token_info.access_token # o_sent.signed.access_token
    /\ o_sent.signed.t < now

---------------------------------------------------------------------------
(* Shutdown (checked under SpecShutdown).                                  *)

(* A step in which the client sends an HTTP request: a business call, a    *)
(* refresh call or a get_access_token() call.                              *)
CallIssued ==
    \/ \E t \in Tasks :
          \/ biz_calls'[t] > biz_calls[t]
          \/ /\ pc'[t] \in {"refresh", "acquire"}
             /\ pc'[t] # pc[t] \/ why'[t] # why[t]
    \/ host_pc # "auth" /\ host_pc' = "auth"

(* C25: once close() has been called no step sends an HTTP request or      *)
(* creates a session.                                                      *)
C25_NoRequestAfterClose ==
    [][close_called => /\ ~CallIssued
                       /\ ~(session # "open" /\ session' = "open")]_vars

(* C40: close() closes only a session the client created itself: a session *)
(* handed in at construction, which is the one in use while the client     *)
(* owns none, is not closed by any step of the client.                     *)
C40_InjectedSessionStaysOpen ==
    [][(session = "open" /\ ~owns_session)
          => session' \in {"open", "closed_outside"}]_vars

(* close() has been called on a client that uses the session handed in,    *)
(* after a request on it was answered, and the session is open.            *)
C40_Witness ==
    /\ close_called
    /\ ~owns_session
    /\ session = "open"
    /\ pc[Observed] = "done"
    /\ biz_calls[Observed] >= 1
    /\ o_last_resp # None

(* The owner closed the session handed in, the client created one of its   *)
(* own for a later request, and close() closed that one.                   *)
C40_WitnessOwn ==
    /\ close_called
    /\ owns_session
    /\ session = "closed"

---------------------------------------------------------------------------
(* Properties of the device manager (checked under SpecManager).           *)

(* C15: when the specification call of a device throws, update_device_cache*)
(* does not raise, the specification of every device in the map was still  *)
(* asked for, and every listed device is in the map, the one whose call    *)
(* threw with empty functions and status_range.                            *)
C15_SpecFailureIsolated ==
    (/\ m_last = "update_device_cache"
     /\ m_pc = "idle"
     /\ \E d \in DOMAIN m_result : m_result[d] = "threw")
    => /\ ~m_raised
       /\ DOMAIN m_result = DOMAIN device_map
       /\ m_listed \subseteq DOMAIN device_map
       /\ \A d \in m_listed :
             m_result[d] = "threw" =>
                /\ device_map[d].functions = EmptyDict
                /\ device_map[d].status_range = EmptyDict

(* A rebuild listed two devices; the specification call of one threw and   *)
(* the other one's was merged.                                             *)
C15_Witness ==
    /\ m_last = "update_device_cache"
    /\ m_pc = "idle"
    /\ \E d, e \in m_listed :
          /\ m_result[d] = "threw"
          /\ m_result[e] = "ok"
          /\ device_map[e].functions # EmptyDict

(* C16: a code that is in the functions or the status_range of a device    *)
(* is still there after every step of every operation.                     *)
C16_SchemaOnlyGrows ==
    [][\A d \in DOMAIN device_map \cap DOMAIN device_map' :
          /\ DOMAIN device_map[d].functions
                \subseteq DOMAIN device_map'[d].functions
          /\ DOMAIN device_map[d].status_range
                \subseteq DOMAIN device_map'[d].status_range]_vars

(* C17: a device id that is in the map stays in the map at every step.     *)
C17_NoDeleteOnMiss ==
    [][DOMAIN device_map \subseteq DOMAIN device_map']_vars

(* A rebuild has ended whose device list did not name a device of the map. *)
C17_Witness ==
    /\ m_last = "update_device_cache"
    /\ m_pc = "idle"
    /\ DOMAIN m_result = DOMAIN device_map
    /\ DOMAIN device_map \ m_listed # {}

(* The codes a status response carries, and the value it gives a code: the *)
(* one of the last item with that code.                                    *)
ResponseCodes(status_list) ==
    {Get(status_list[i], "code", "") : i \in DOMAIN status_list} \ {""}

ResponseValue(status_list, code) ==
    LET at == {i \in DOMAIN status_list :
                  Get(status_list[i], "code", "") = code}
        last == CHOOSE i \in at : \A j \in at : j <= i
    IN  Get(status_list[last], "value", "None")

(* C18: after a successful status call for a device, every code of the     *)
(* response has the response's value and every other code of the prior     *)
(* status has its prior value.                                             *)
C18_StatusMergeAdditive ==
    (m_poll # None /\ m_poll.reply.kind = "ok") =>
        LET status == device_map[m_poll.id].status
            codes == ResponseCodes(m_poll.reply.result)
        IN  /\ \A c \in codes :
                  /\ c \in DOMAIN status
                  /\ status[c] = ResponseValue(m_poll.reply.result, c)
            /\ \A c \in DOMAIN m_poll.before \ codes :
                  /\ c \in DOMAIN status
                  /\ status[c] = m_poll.before[c]

(* switch_1=true was merged into {switch_1: false, bright_value: 500}.     *)
C18_Witness ==
    /\ m_poll # None
    /\ m_poll.reply = Ok(<<[code |-> "switch_1", value |-> "true"]>>)
    /\ DOMAIN m_poll.before = {"switch_1", "bright_value"}
    /\ m_poll.before["switch_1"] = "false"
    /\ m_poll.before["bright_value"] = "500"

(* C19: in one update_device_status a status call is issued for every      *)
(* device of the map although the call of another device failed or threw,  *)
(* the status of a device whose call failed is left as it was, and the     *)
(* cycle does not raise.                                                   *)
C19_StatusFailureIsolated ==
    /\ (/\ m_last = "update_device_status"
        /\ m_pc = "idle"
        /\ \E d \in DOMAIN m_result : m_result[d] # "ok")
       => /\ ~m_raised
          /\ DOMAIN m_result = DOMAIN device_map
    /\ (m_poll # None /\ m_poll.reply.kind # "ok")
       => device_map[m_poll.id].status = m_poll.before

(* A cycle over two devices has ended: the call of the first one threw,    *)
(* the status of the second one was merged after that.                     *)
C19_Witness ==
    /\ m_last = "update_device_status"
    /\ m_pc = "idle"
    /\ Cardinality(DOMAIN device_map) >= 2
    /\ m_result[NextDevice(DOMAIN device_map)] = "threw"
    /\ m_poll # None
    /\ m_poll.reply.kind = "ok"
    /\ m_poll.before # device_map[m_poll.id].status

(* C20: the listeners registered at the time are each handed the device as *)
(* it is after the merge when its status call succeeded, and no listener   *)
(* is called for a device whose status call failed.                        *)
C20_NotifiedAfterMerge ==
    m_poll # None =>
        IF m_poll.reply.kind = "ok"
        THEN /\ Len(m_poll.notified) = m_poll.listeners
             /\ \A i \in DOMAIN m_poll.notified :
                   m_poll.notified[i] = device_map[m_poll.id]
        ELSE m_poll.notified = <<>>

(* A listener was handed a device whose status the merge had changed.      *)
C20_Witness ==
    /\ m_poll # None
    /\ m_poll.reply.kind = "ok"
    /\ Len(m_poll.notified) >= 1
    /\ m_poll.before # device_map[m_poll.id].status

(* C21: from the start of a send_commands until another operation starts,  *)
(* whatever the call answered, device_map has the same devices and each    *)
(* one the same status.                                                    *)
C21_CommandsKeepStatus ==
    [][m_last' = "send_commands" =>
          /\ DOMAIN device_map' = DOMAIN device_map
          /\ \A d \in DOMAIN device_map :
                device_map'[d].status = device_map[d].status]_vars

(* send_commands returned True for switch_1=true sent to a device of the   *)
(* map whose status still says switch_1=false.                             *)
C21_Witness ==
    /\ m_last = "send_commands"
    /\ m_pc = "idle"
    /\ m_returned # None
    /\ m_returned.value
    /\ m_returned.id \in DOMAIN device_map
    /\ Get(device_map[m_returned.id].status, "switch_1", "") = "false"

(* C22: send_commands returns True exactly when the commands call came     *)
(* back with success; when it came back without or raised, send_commands   *)
(* returns False and raises nothing.                                       *)
C22_CommandResult ==
    (m_last = "send_commands" /\ m_pc = "idle") =>
        /\ m_returned # None
        /\ m_returned.value = (m_returned.reply = "ok")
        /\ ~m_raised

(* The commands call for a device of the map raised and send_commands      *)
(* returned False.                                                         *)
C22_Witness ==
    /\ m_last = "send_commands"
    /\ m_pc = "idle"
    /\ m_returned # None
    /\ m_returned.reply = "threw"
    /\ ~m_returned.value
    /\ m_returned.id \in DOMAIN device_map

(* C23: an update_device_cache whose device list call raised or came back  *)
(* without success ends in an exception, which setup turns into            *)
(* ConfigEntryAuthFailed.                                                  *)
C23_ListFailureIsFatal ==
    (/\ m_last = "update_device_cache"
     /\ m_pc = "idle"
     /\ m_list.kind \in {"threw", "fail"})
    => /\ m_raised
       /\ SetupAfterCache(m_raised) = "ConfigEntryAuthFailed"

(* C24: an update_device_status in which no status call succeeded is       *)
(* reported to the coordinator as UpdateFailed.                            *)
C24_FailedRefreshReported ==
    (/\ m_last = "update_device_status"
     /\ m_pc = "idle"
     /\ DOMAIN m_result # {}
     /\ \A d \in DOMAIN m_result : m_result[d] # "ok")
    => UpdateAfterStatus(m_raised) = "UpdateFailed"

(* C29: after every step each key of device_map is a non-empty id and is   *)
(* the id of the device stored under it, and the answer to the device list *)
(* call adds the ids the list names and no other key, and leaves the       *)
(* devices it does not name as they were: an entry without an id or with   *)
(* an empty one stores nothing.                                            *)
C29_KeysAreIds ==
    [][/\ \A k \in DOMAIN device_map' :
             k # "" /\ device_map'[k].id = k
       /\ (m_pc = "list" /\ m_pc' # "list") =>
             /\ DOMAIN device_map' = DOMAIN device_map \cup m_listed'
             /\ \A d \in DOMAIN device_map \ m_listed' :
                   device_map'[d] = device_map[d]]_vars

(* A rebuild is over whose device list had entries without an id before    *)
(* the entry of a device, while the map held a device the list did not     *)
(* name.                                                                   *)
C29_Witness ==
    /\ m_last = "update_device_cache"
    /\ m_pc = "idle"
    /\ m_list.kind = "ok"
    /\ m_list.entries > Cardinality(m_listed)
    /\ m_listed # {}
    /\ DOMAIN device_map \ m_listed # {}

(* C30: a specification call answered without success leaves the device,   *)
(* its functions and status_range included, as it was, and the rebuild     *)
(* goes on to the next device or ends without raising.                     *)
C30_SpecFailureKeepsSchema ==
    [][(m_pc = "spec" /\ Get(m_result', m_cur, "") = "fail") =>
          /\ device_map'[m_cur].functions = device_map[m_cur].functions
          /\ device_map'[m_cur].status_range = device_map[m_cur].status_range
          /\ device_map' = device_map
          /\ m_pc' \in {"spec", "idle"}
          /\ ~m_raised']_vars

(* A rebuild is over in which the specification call of a device that had  *)
(* a schema from an earlier rebuild was answered without success.          *)
C30_Witness ==
    /\ m_last = "update_device_cache"
    /\ m_pc = "idle"
    /\ \E d \in DOMAIN m_result :
          /\ m_result[d] = "fail"
          /\ device_map[d].functions # EmptyDict
          /\ device_map[d].status_range # EmptyDict

(* A values field that json.loads rejects.                                 *)
Undecodable(entry) ==
    /\ "values" \in DOMAIN entry
    /\ entry.values.is_str
    /\ entry.values.val \notin DOMAIN JsonObjects

(* The entries of a response list that have a code.                        *)
Coded(entries) ==
    {entries[i] : i \in {j \in DOMAIN entries :
                            Get(entries[j], "code", "") # ""}}

(* The device holds the schema of the response `result`: one of the coded  *)
(* entries of the response is in its functions or its status_range.        *)
HoldsSchemaOf(device, result) ==
    \/ \E e \in Coded(Get(result, "functions", <<>>)) :
          e.code \in DOMAIN device.functions
    \/ \E e \in Coded(Get(result, "status", <<>>)) :
          e.code \in DOMAIN device.status_range

(* Every coded entry of `entries` is in `schema`, with the empty           *)
(* constraints object when its values field does not decode.               *)
EntriesMerged(schema, entries) ==
    \A e \in Coded(entries) :
        /\ e.code \in DOMAIN schema
        /\ Undecodable(e) => schema[e.code].values = "obj:empty"
        /\ (~Undecodable(e) /\ "values" \in DOMAIN e /\ ~e.values.is_str)
              => schema[e.code].values = e.values.val
        /\ (~Undecodable(e) /\ "values" \in DOMAIN e /\ e.values.is_str)
              => schema[e.code].values = JsonObjects[e.values.val]

(* C31: a values field that fails to decode affects only its own entry:    *)
(* a device that holds an entry of a specification response holds every    *)
(* function and status-range entry of that response, the entry whose       *)
(* values did not decode with the empty constraints object.                *)
C31_DecodeFailureIsLocal ==
    \A d \in DOMAIN device_map :
        \A result \in SpecResults :
            HoldsSchemaOf(device_map[d], result) =>
                /\ EntriesMerged(device_map[d].functions,
                                 Get(result, "functions", <<>>))
                /\ EntriesMerged(device_map[d].status_range,
                                 Get(result, "status", <<>>))

(* A rebuild is over that merged a specification response with a values    *)
(* field that does not decode and entries after it.                        *)
C31_Witness ==
    /\ m_last = "update_device_cache"
    /\ m_pc = "idle"
    /\ \E d \in DOMAIN m_result :
          /\ m_result[d] = "ok"
          /\ \E result \in SpecResults :
                /\ \E e \in Coded(Get(result, "functions", <<>>)) :
                      /\ Undecodable(e)
                      /\ e.code \in DOMAIN device_map[d].functions
                      /\ device_map[d].functions[e.code].values = "obj:empty"
                /\ Cardinality(DOMAIN device_map[d].functions) >= 2
                /\ DOMAIN device_map[d].status_range # {}


---------------------------------------------------------------------------
(* Properties of overlapping polling cycles (checked under SpecCycles,     *)
(* SpecListeners and SpecRebuilds).                                        *)

(* The step in which the answer to the status call of cycle c arrives.     *)
Arrives(c) ==
    /\ c_pc[c] = "status"
    /\ c_pc'[c] = "idle" \/ c_cur'[c] # c_cur[c]
    /\ c_poll' # None
    /\ c_poll'.cycle = c
    /\ c_poll'.id = c_cur[c]

(* C33: status merges of one device are applied in the order the responses *)
(* arrive, the last write of a code winning: when a response arrives, in   *)
(* whichever of the overlapping cycles, every code it carries takes the    *)
(* value the response has for it, over what earlier responses left, and    *)
(* every other code keeps its value.                                       *)
C33_LastArrivalWins ==
    [][\A c \in Cycles :
          (Arrives(c) /\ c_poll'.reply.kind = "ok") =>
              LET before == device_map[c_cur[c]].status
                  status == device_map'[c_cur[c]].status
                  codes == ResponseCodes(c_poll'.reply.result)
              IN  /\ \A code \in codes :
                        /\ code \in DOMAIN status
                        /\ status[code] =
                              ResponseValue(c_poll'.reply.result, code)
                  /\ \A code \in DOMAIN before \ codes :
                        /\ code \in DOMAIN status
                        /\ status[code] = before[code]
                  /\ DOMAIN status = DOMAIN before \cup codes]_vars

(* Two cycles overlap on one device: the response of the later cycle for   *)
(* the device has arrived and changed a code while the status call of the  *)
(* first cycle for the same device is still in flight.                     *)
C33_Witness ==
    /\ c_poll # None
    /\ c_poll.cycle # FirstCycle
    /\ c_poll.reply = Ok(<<[code |-> "switch_1", value |-> "true"]>>)
    /\ c_pc[FirstCycle] = "status"
    /\ c_cur[FirstCycle] = c_poll.id
    /\ DOMAIN device_map[c_poll.id].status = {"switch_1", "bright_value"}
    /\ device_map[c_poll.id].status["switch_1"] = "true"

(* C38: in one cycle every registered listener is called exactly once, in  *)
(* order of registration, for each device whose status was merged, also    *)
(* when a listener raises; and a cycle is not ended by a listener that     *)
(* raises.                                                                 *)
C38_EveryListenerNotified ==
    [][\A c \in Cycles :
          (Arrives(c) /\ c_poll'.reply.kind = "ok") =>
              /\ c_poll'.called = [i \in 1..device_listeners |-> i]
              /\ c_todo[c] # {} => c_pc'[c] = "status"
              /\ c_ended' # c_ended => ~c_ended'.raised]_vars

(* C39: a cycle during which update_device_cache inserted or replaced      *)
(* records of device_map ends without raising, and by then a status call   *)
(* has been issued for every device that was in device_map when the cycle  *)
(* started.                                                                *)
C39_CycleSurvivesRebuild ==
    [][\A c \in Cycles :
          (c_pc[c] = "status" /\ c_pc'[c] = "idle") =>
              /\ ~c_ended'.raised
              /\ c_keys[c] \subseteq c_polled[c]]_vars

===========================================================================
